---------------------------- MODULE Spec2Model ----------------------------
(***************************************************************************)
(* GridPath's subtype-module composition: the loader of subtype modules    *)
(* (gridpath/auxiliary/auxiliary.py), the registration of per-type sets in *)
(* the dynamic components object d, the data-load hooks of the capacity    *)
(* type modules, join_sets, the PRM group-cost dispatch and the import of  *)
(* results into the database.                                              *)
(***************************************************************************)
EXTENDS Integers, Sequences, FiniteSets, TLC

(***************************************************************************)
(* Bounds of the model.                                                    *)
(***************************************************************************)
MaxRequired == 2

MaxProjectRows == 2

MaxCsvRows == 2


(***************************************************************************)
(* Generic helpers.                                                        *)
(***************************************************************************)
Range(s) == {s[i] : i \in 1..Len(s)}

SeqsUpTo(S, n) == UNION {[1..k -> S] : k \in 0..n}

\* A Python dict: a function whose domain is the set of keys.
EmptyDict == [k \in {} |-> {}]

\* A mutant of the assignment: the dict is replaced by one of a single item.
DictOfOne(dict, key, val) == [k \in {key} |-> val]

DictPut(dict, key, val) ==
    [k \in (DOMAIN dict) \cup {key} |-> IF k = key THEN val ELSE dict[k]]

(***************************************************************************)
(* The subtype-module loader.                                              *)
(***************************************************************************)
\* The categories whose loaders are modelled, and the names a scenario may
\* ask for in each.
Categories == {"capacity", "prm"}

TypeNames(category) ==
    IF category = "capacity"
    THEN {"gen_spec", "existing_gen_linear_economic_retirement",
          "existing_gen_no_economic_retirement"}
    ELSE {"energy_only_allowed", "fully_deliverable"}

\* required_attributes of load_gen_storage_capacity_type_modules
CapacityRequiredAttributes == <<"capacity_rule", "capacity_cost_rule">>

\* required_attributes of load_prm_type_modules
PrmRequiredAttributes == <<"elcc_eligible_capacity_rule">>

RequiredAttributes(category) ==
    IF category = "capacity" THEN CapacityRequiredAttributes
    ELSE PrmRequiredAttributes

\* The attributes a module of the category may or may not define: the ones
\* the loader requires and the ones generic components call on it.
ModuleAttributes(category) ==
    IF category = "capacity" THEN {"capacity_rule", "capacity_cost_rule"}
    ELSE {"elcc_eligible_capacity_rule", "group_cost_rule"}

\* A package: the modules import_module can find in it, each with the
\* attributes it defines. A name outside the domain raises ImportError.
Packages(category) ==
    UNION {[D -> SUBSET ModuleAttributes(category)] :
               D \in SUBSET TypeNames(category)}

\* hasattr(imp_m, a)
hasattr(imp_m, a) == a \in imp_m.attrs

\* The mutant of the attribute check: hasattr is never consulted.
FirstMissingUnchecked(imp_m, required_attributes) == 0

\* The first required attribute the module lacks (0 when it has them all):
\* the inner for loop of load_subtype_modules raises at the first one.
FirstMissing(imp_m, required_attributes) ==
    LET missing == {j \in 1..Len(required_attributes) :
                        ~hasattr(imp_m, required_attributes[j])}
    IN  IF missing = {} THEN 0
        ELSE CHOOSE j \in missing : \A k \in missing : j <= k

\* The body of the loop for one name m, with the ImportError handler.
\* acc is the state of the call: the dict built so far and what was printed.
RECURSIVE LoadLoop(_, _, _, _, _)
LoadLoop(required_subtype_modules, package, required_attributes, i, acc) ==
    IF i > Len(required_subtype_modules)
    THEN [status |-> "returned", modules |-> acc.modules,
          printed |-> acc.printed, error |-> <<>>]
    ELSE LET m == required_subtype_modules[i] IN
         IF m \notin DOMAIN package
         THEN \* except ImportError: print(...) and go on with the next name
              LoadLoop(required_subtype_modules, package, required_attributes,
                       i + 1,
                       [acc EXCEPT !.printed =
                            Append(@, <<"ERROR! Subtype module not found", m>>)])
         ELSE LET imp_m == [name |-> m, attrs |-> package[m]]
                  j == FirstMissing(imp_m, required_attributes)
              IN  IF j # 0
                  THEN \* raise Exception: nothing is returned
                       [status |-> "raised", modules |-> EmptyDict,
                        printed |-> acc.printed,
                        error |-> <<"ERROR! No function in subtype module",
                                    required_attributes[j], m>>]
                  ELSE LoadLoop(required_subtype_modules, package,
                                required_attributes, i + 1,
                                [acc EXCEPT !.modules = DictPut(@, m, imp_m)])

load_subtype_modules(required_subtype_modules, package, required_attributes) ==
    LoadLoop(required_subtype_modules, package, required_attributes, 1,
             [modules |-> EmptyDict, printed |-> <<>>])

load_gen_storage_capacity_type_modules(required_capacity_modules, package) ==
    load_subtype_modules(required_capacity_modules, package,
                         CapacityRequiredAttributes)

load_prm_type_modules(required_prm_modules, package) ==
    load_subtype_modules(required_prm_modules, package,
                         PrmRequiredAttributes)

NotCalled == [status |-> "not_called", modules |-> EmptyDict,
              printed |-> <<>>, error |-> <<>>]

(***************************************************************************)
(* The capacity-type modules: registration and data loading.               *)
(***************************************************************************)
Builds == {1, 2}

Projects == {"A", "B"}

Periods == {1, 2}

CapacityTypes == TypeNames("capacity")

\* The rows of projects.tab: <<project, capacity_type>>.
ProjectRows == Projects \X CapacityTypes

\* The rows of a period-params file, reduced to their index columns:
\* <<project, period>>. The database keys them by (project, period), so a file
\* lists a pair at most once.
PeriodRows == Projects \X Periods

IsInjective(s) == \A i, j \in 1..Len(s) : s[i] = s[j] => i = j

\* A period-params file lists at most one row per period of the study.
MaxRows == Cardinality(Periods)

PeriodParamFiles == {f \in SeqsUpTo(PeriodRows, MaxRows) : IsInjective(f)}

\* projects.tab lists a (project, capacity_type) row at most once; a project
\* may still appear with two capacity types.
ProjectsTabs == {t \in SeqsUpTo(ProjectRows, MaxProjectRows) : IsInjective(t)}

\* The dynamic components object a build starts with: class DynamicComponents
\* has no attribute until determine_dynamic_components sets the list.
NewDynamicComponents == [capacity_type_operational_period_sets |-> <<>>]

\* gen_spec.add_model_components: the set is declared and its name appended
\* to the list of sets to join.
gen_spec_add_model_components(dd) ==
    [dd EXCEPT !.capacity_type_operational_period_sets =
                   Append(@, "GEN_SPEC_OPR_PRDS")]

\* existing_gen_linear_economic_retirement.add_module_specific_components
lin_econ_ret_add_module_specific_components(dd) ==
    [dd EXCEPT !.capacity_type_operational_period_sets =
         Append(@, "EXISTING_LINEAR_ECON_RETRMNT_GENERATORS_OPERATIONAL_PERIODS")]

\* A mutant of the hook below: the name is appended twice.
no_econ_ret_registering_twice(dd) ==
    [dd EXCEPT !.capacity_type_operational_period_sets =
         Append(Append(@,
             "EXISTING_NO_ECON_RETRMNT_GENERATORS_OPERATIONAL_PERIODS"),
             "EXISTING_NO_ECON_RETRMNT_GENERATORS_OPERATIONAL_PERIODS")]

\* existing_gen_no_economic_retirement.add_module_specific_components
no_econ_ret_add_module_specific_components(dd) ==
    [dd EXCEPT !.capacity_type_operational_period_sets =
         Append(@, "EXISTING_NO_ECON_RETRMNT_GENERATORS_OPERATIONAL_PERIODS")]

\* The registration hook of the module loaded for a capacity type.
RegistrationHook(type, dd) ==
    CASE type = "gen_spec" -> gen_spec_add_model_components(dd)
      [] type = "existing_gen_linear_economic_retirement" ->
             lin_econ_ret_add_module_specific_components(dd)
      [] type = "existing_gen_no_economic_retirement" ->
             no_econ_ret_add_module_specific_components(dd)

\* A mutant of the filter: every project of projects.tab is taken.
ProjectsOfAnyType(projects_tab, type) ==
    [i \in 1..Len(projects_tab) |-> projects_tab[i][1]]

\* The projects of projects.tab whose capacity_type is the given one, in file
\* order (determine_gen_spec_projects and its siblings).
ProjectsOfType(projects_tab, type) ==
    LET rows == SelectSeq(projects_tab, LAMBDA row : row[2] = type)
    IN  [i \in 1..Len(rows) |-> rows[i][1]]

determine_gen_spec_projects(projects_tab) ==
    ProjectsOfType(projects_tab, "gen_spec")

determine_existing_gen_linear_econ_ret_projects(projects_tab) ==
    ProjectsOfType(projects_tab, "existing_gen_linear_economic_retirement")

determine_existing_gen_no_econ_ret_projects(projects_tab) ==
    ProjectsOfType(projects_tab, "existing_gen_no_economic_retirement")

\* generator_period_list of determine_period_params: the rows of the file
\* whose project is in generators_list, in file order.
generator_period_list(generators_list, file) ==
    SelectSeq(file, LAMBDA row : row[1] \in Range(generators_list))

\* A mutant of gen_spec.load_module_specific_data: projects without a row in
\* the file are not looked for.
gen_spec_load_without_check(projects_tab, specified_file) ==
    LET generators_list == determine_gen_spec_projects(projects_tab)
        gpl == generator_period_list(generators_list, specified_file)
    IN  [ok |-> TRUE, set |-> "GEN_SPEC_OPR_PRDS", data |-> gpl,
         error |-> <<>>]

\* gen_spec.load_module_specific_data: the set's data, or the ValueError for
\* the gen_spec projects that have no row in the file.
gen_spec_load_module_specific_data(projects_tab, specified_file) ==
    LET generators_list == determine_gen_spec_projects(projects_tab)
        gpl == generator_period_list(generators_list, specified_file)
        gen_w_params == {gpl[i][1] : i \in 1..Len(gpl)}
        diff == Range(generators_list) \ gen_w_params
    IN  IF diff # {}
        THEN [ok |-> FALSE, set |-> "GEN_SPEC_OPR_PRDS", data |-> <<>>,
              error |-> <<"Missing capacity/fixed cost inputs", diff>>]
        ELSE [ok |-> TRUE, set |-> "GEN_SPEC_OPR_PRDS", data |-> gpl,
              error |-> <<>>]

\* existing_gen_linear_economic_retirement.load_module_specific_data
lin_econ_ret_load_module_specific_data(projects_tab, existing_file) ==
    LET generators_list ==
            determine_existing_gen_linear_econ_ret_projects(projects_tab)
    IN  [ok |-> TRUE,
         set |-> "EXISTING_LINEAR_ECON_RETRMNT_GENERATORS_OPERATIONAL_PERIODS",
         data |-> generator_period_list(generators_list, existing_file),
         error |-> <<>>]

\* existing_gen_no_economic_retirement.load_module_specific_data
no_econ_ret_load_module_specific_data(projects_tab, existing_file) ==
    LET generators_list ==
            determine_existing_gen_no_econ_ret_projects(projects_tab)
    IN  [ok |-> TRUE,
         set |-> "EXISTING_NO_ECON_RETRMNT_GENERATORS_OPERATIONAL_PERIODS",
         data |-> generator_period_list(generators_list, existing_file),
         error |-> <<>>]

\* The data-load hook of the module loaded for a capacity type.
LoadDataHook(type, projects_tab, specified_file, existing_file) ==
    CASE type = "gen_spec" ->
             gen_spec_load_module_specific_data(projects_tab, specified_file)
      [] type = "existing_gen_linear_economic_retirement" ->
             lin_econ_ret_load_module_specific_data(projects_tab, existing_file)
      [] type = "existing_gen_no_economic_retirement" ->
             no_econ_ret_load_module_specific_data(projects_tab, existing_file)

\* The set a capacity-type module declares.
OperationalPeriodSet(type) ==
    CASE type = "gen_spec" -> "GEN_SPEC_OPR_PRDS"
      [] type = "existing_gen_linear_economic_retirement" ->
             "EXISTING_LINEAR_ECON_RETRMNT_GENERATORS_OPERATIONAL_PERIODS"
      [] type = "existing_gen_no_economic_retirement" ->
             "EXISTING_NO_ECON_RETRMNT_GENERATORS_OPERATIONAL_PERIODS"

\* pandas' unique(): the distinct values of a column in order of first
\* appearance.
RECURSIVE Unique(_)
Unique(s) ==
    IF s = <<>> THEN <<>>
    ELSE LET front == Unique(SubSeq(s, 1, Len(s) - 1))
             last == s[Len(s)]
         IN  IF last \in Range(front) THEN front ELSE Append(front, last)

(***************************************************************************)
(* The local server: launching scenario runs (flask_local_server).         *)
(***************************************************************************)
MaxLaunches == 4

\* message['scenario'] as the client sends it: a number or a string.
Messages ==
    {[scenario |-> v] : v \in {<<"int", 1>>, <<"int", 2>>, <<"str", "1">>}}

\* process_id of a scenario without a process: None. The pid of a started
\* process is a positive number.
NoPid == 0

\* str(x): the decimal digits of a number, a string itself.
str(x) == IF x[1] = "str" THEN x[2] ELSE ToString(x[2])

\* A mutant of check_scenario_process_status: a recorded scenario with a
\* process id is reported as not running.
check_scenario_process_status_inverted(status, message) ==
    LET scenario_name == str(message.scenario) IN
    IF scenario_name \in DOMAIN status
    THEN status[scenario_name].process_id = NoPid
    ELSE FALSE

\* check_scenario_process_status: True when the scenario is a key of
\* SCENARIO_STATUS and its process_id is not None.
check_scenario_process_status(status, message) ==
    LET scenario_name == str(message.scenario) IN
    IF scenario_name \in DOMAIN status
    THEN status[scenario_name].process_id # NoPid
    ELSE FALSE

(***************************************************************************)
(* The per-period parameters a data-load hook reads with its set.          *)
(***************************************************************************)
MaxParamRows == 2

CapacityValues == {0, 5}

FixedCostValues == {1}

\* The rows of a period-params file with their value columns:
\* <<project, period, capacity_mw, fixed_cost_per_mw_yr>>. Nothing keeps a
\* file from listing a (project, period) twice.
ParamRows == Projects \X Periods \X CapacityValues \X FixedCostValues

ParamFiles == SeqsUpTo(ParamRows, MaxParamRows)

\* float(x) of a number pandas read: a Python float of the same value.
float(x) == <<"float", x>>

\* A mutant of the loop below: the capacity of a row is stored under the
\* period of the first row of the file.
RECURSIVE determine_period_params_first_period(_, _, _, _)
determine_period_params_first_period(generators_list, file, i, acc) ==
    IF i > Len(file) THEN acc
    ELSE LET row == file[i] IN
         IF row[1] \in Range(generators_list)
         THEN determine_period_params_first_period(generators_list, file, i + 1,
                  [generator_period_list |->
                       Append(acc.generator_period_list, <<row[1], row[2]>>),
                   capacity_mw_dict |->
                       DictPut(acc.capacity_mw_dict, <<row[1], file[1][2]>>,
                               float(row[3])),
                   fixed_cost_per_mw_yr_dict |->
                       DictPut(acc.fixed_cost_per_mw_yr_dict,
                               <<row[1], row[2]>>, float(row[4]))])
         ELSE determine_period_params_first_period(generators_list, file,
                                                 i + 1, acc)

\* The loop of determine_period_params over the rows of the file from row i
\* on: a row of a project of generators_list is appended to the list and
\* its two values are stored in the dicts under (project, period).
RECURSIVE determine_period_params(_, _, _, _)
determine_period_params(generators_list, file, i, acc) ==
    IF i > Len(file) THEN acc
    ELSE LET row == file[i] IN
         IF row[1] \in Range(generators_list)
         THEN determine_period_params(generators_list, file, i + 1,
                  [generator_period_list |->
                       Append(acc.generator_period_list, <<row[1], row[2]>>),
                   capacity_mw_dict |->
                       DictPut(acc.capacity_mw_dict, <<row[1], row[2]>>,
                               float(row[3])),
                   fixed_cost_per_mw_yr_dict |->
                       DictPut(acc.fixed_cost_per_mw_yr_dict,
                               <<row[1], row[2]>>, float(row[4]))])
         ELSE determine_period_params(generators_list, file, i + 1, acc)

NoParams == [generator_period_list |-> <<>>, capacity_mw_dict |-> EmptyDict,
             fixed_cost_per_mw_yr_dict |-> EmptyDict]

\* load_module_specific_data of a capacity type with the parameters: what
\* the hook puts into the data portal, or the ValueError of gen_spec.
load_module_specific_data(type, projects_tab, file) ==
    LET generators_list == ProjectsOfType(projects_tab, type)
        params == determine_period_params(generators_list, file, 1, NoParams)
        gen_w_params == {params.generator_period_list[k][1] :
                            k \in 1..Len(params.generator_period_list)}
        diff == Range(generators_list) \ gen_w_params
    IN  IF type = "gen_spec" /\ diff # {}
        THEN [status |-> "raised", data |-> NoParams]
        ELSE [status |-> "loaded", data |-> params]

(***************************************************************************)
(* join_sets.                                                              *)
(***************************************************************************)
\* getattr(mod, s): the elements of the model's set s in iteration order; a
\* set no data was loaded for is empty.
SetOf(mod, s) == IF s \in DOMAIN mod THEN mod[s] ELSE <<>>

\* The orders in which the elements of a finite set can be listed.
Orderings(S) ==
    {f \in [1..Cardinality(S) -> S] : \A e \in S : \E i \in DOMAIN f : f[i] = e}

\* A mutant of the loop: the last set of the list is not visited.
JoinedElementsButLast(mod, set_list) ==
    UNION {Range(SetOf(mod, set_list[i])) : i \in 1..(Len(set_list) - 1)}

\* The elements added to joined_set by the loops over set_list.
JoinedElements(mod, set_list) ==
    UNION {Range(SetOf(mod, set_list[i])) : i \in 1..Len(set_list)}

\* A mutant of join_sets: a list of one name is treated like an empty one.
join_sets_single_as_empty(mod, set_list) ==
    IF Len(set_list) <= 1 THEN {<<>>}
    ELSE Orderings(JoinedElements(mod, set_list))

\* join_sets(mod, set_list): the values the call can return, each as the
\* sequence in which the returned collection iterates. An empty list gives [],
\* a single name gives that set itself, and otherwise a Python set is built,
\* whose iteration order is not determined by the order of insertion.
join_sets(mod, set_list) ==
    IF Len(set_list) = 0 THEN {<<>>}
    ELSE IF Len(set_list) = 1 THEN {SetOf(mod, set_list[1])}
    ELSE Orderings(JoinedElements(mod, set_list))

(***************************************************************************)
(* PRM group costs: the type of each cost group and the dispatch of        *)
(* group_cost_rule (gridpath/project/reliability/prm/group_costs.py).      *)
(***************************************************************************)
PrmTypes == TypeNames("prm")

\* The values of the prm_type column of projects.tab: "." stands for none.
PrmTypeColumns == SeqsUpTo(PrmTypes \cup {"."}, MaxProjectRows)

\* The cost groups, and the sets of groups the PRM type modules declare.
Groups == {"g1", "g2"}

GroupSetNames == <<"DELIVERABILITY_GROUPS", "ENERGY_LIMITED_GROUPS">>

GroupLists == {g \in SeqsUpTo(Groups, Cardinality(Groups)) : IsInjective(g)}

\* A mutant of required_prm_modules: only the type of the first project
\* that has one is required.
required_prm_modules_first_only(prm_type_column) ==
    LET types == SelectSeq(Unique(prm_type_column),
                           LAMBDA prm_type : prm_type # ".")
    IN  IF Len(types) = 0 THEN types ELSE <<types[1]>>

\* A mutant of required_prm_modules: the "." of projects without a PRM type
\* is kept.
required_prm_modules_with_placeholder(prm_type_column) ==
    Unique(prm_type_column)

\* required_prm_modules: the distinct prm_type values other than ".".
required_prm_modules(prm_type_column) ==
    SelectSeq(Unique(prm_type_column), LAMBDA prm_type : prm_type # ".")

\* A mutant of group_prm_type_init: the membership test is left out, and
\* the type of the first set of the list is returned.
group_prm_type_init_first_set(mod, dd, group) ==
    IF Len(dd.prm_cost_group_sets) = 0 THEN "None"
    ELSE dd.prm_cost_group_prm_type[dd.prm_cost_group_sets[1]]

\* group_prm_type_init: the type registered for the first set of the list
\* that contains the group; None when no set contains it.
group_prm_type_init(mod, dd, group) ==
    LET holders == {i \in 1..Len(dd.prm_cost_group_sets) :
                        group \in Range(SetOf(mod, dd.prm_cost_group_sets[i]))}
    IN  IF holders = {} THEN "None"
        ELSE LET first == CHOOSE i \in holders : \A k \in holders : i <= k
             IN  dd.prm_cost_group_prm_type[dd.prm_cost_group_sets[first]]

\* within=["energy_only_allowed"] of the group_prm_type Param.
GroupPrmTypeWithin == {"energy_only_allowed"}

NoDispatch == [outcome |-> "none", key |-> "", module |-> "",
               operation |-> "", group |-> "", period |-> 0]

\* A mutant of the dispatch: a type that was not loaded yields a default.
group_cost_rule_with_default(imported, prm_type_of, group, p) ==
    LET prm_type == prm_type_of[group] IN
    IF prm_type \in DOMAIN imported
       /\ "group_cost_rule" \in imported[prm_type].attrs
    THEN [outcome |-> "value", key |-> prm_type,
          module |-> imported[prm_type].name,
          operation |-> "group_cost_rule", group |-> group, period |-> p]
    ELSE [outcome |-> "value", key |-> prm_type, module |-> "",
          operation |-> "", group |-> group, period |-> p]

\* A mutant of the dispatch: the module is not the one of the group's type.
group_cost_rule_of_any_module(imported, prm_type_of, group, p) ==
    LET prm_type == prm_type_of[group]
        others == (DOMAIN imported) \ {prm_type}
        used == IF others = {} THEN prm_type ELSE CHOOSE t \in others : TRUE
    IN  IF prm_type \notin DOMAIN imported
        THEN [outcome |-> "KeyError", key |-> prm_type, module |-> "",
              operation |-> "", group |-> group, period |-> p]
        ELSE [outcome |-> "value", key |-> prm_type,
              module |-> imported[used].name,
              operation |-> "group_cost_rule", group |-> group, period |-> p]

\* group_cost_rule(mod, group, p): the module imported for the group's type is
\* looked up in the dict (KeyError when absent) and its group_cost_rule is
\* called with (mod, group, p) (AttributeError when the module has none). A
\* returned value is written as the call that produced it.
group_cost_rule(imported, prm_type_of, group, p) ==
    LET prm_type == prm_type_of[group] IN
    IF prm_type \notin DOMAIN imported
    THEN [outcome |-> "KeyError", key |-> prm_type, module |-> "",
          operation |-> "", group |-> group, period |-> p]
    ELSE IF "group_cost_rule" \notin imported[prm_type].attrs
    THEN [outcome |-> "AttributeError", key |-> prm_type,
          module |-> imported[prm_type].name,
          operation |-> "group_cost_rule", group |-> group, period |-> p]
    ELSE [outcome |-> "value", key |-> prm_type,
          module |-> imported[prm_type].name,
          operation |-> "group_cost_rule", group |-> group, period |-> p]

(***************************************************************************)
(* The import of the linear-economic-retirement results into the database  *)
(* (import_module_specific_results_into_database).                         *)
(***************************************************************************)
ScenarioIds == {1, 2}

RetiredValues == {0, 5}

(***************************************************************************)
(* Text. A Python str is a sequence of characters; the results travel from *)
(* the model to the database as text: csv.writer writes them, csv.reader   *)
(* reads them back as strings, and str.format pastes those strings into    *)
(* the INSERT statement that SQLite then parses.                           *)
(***************************************************************************)
Digits == <<"0", "1", "2", "3", "4", "5", "6", "7", "8", "9">>

IsDigit(c) == \E k \in 1..10 : Digits[k] = c

DigitValue(c) == (CHOOSE k \in 1..10 : Digits[k] = c) - 1

\* str(n) of a non-negative int, as csv.writer writes the period.
RECURSIVE str_int(_)
str_int(n) ==
    IF n < 10 THEN <<Digits[n + 1]>>
    ELSE str_int(n \div 10) \o <<Digits[(n % 10) + 1]>>

\* repr(v) of a float with a whole, non-negative value, as csv.writer writes
\* value(m.Retire_MW[prj, p]).
float_repr(v) == str_int(v) \o <<".", "0">>

\* The value of a string of digits.
RECURSIVE digits_value(_)
digits_value(text) ==
    IF text = <<>> THEN 0
    ELSE 10 * digits_value(SubSeq(text, 1, Len(text) - 1))
             + DigitValue(text[Len(text)])

\* csv.writer doubles the quote characters of a field it quotes.
RECURSIVE csv_double_quotes(_)
csv_double_quotes(field) ==
    IF field = <<>> THEN <<>>
    ELSE (IF Head(field) = "\"" THEN <<"\"", "\"">> ELSE <<Head(field)>>)
             \o csv_double_quotes(Tail(field))

\* A field as csv.writer writes it (excel dialect, QUOTE_MINIMAL): quoted
\* when it holds the delimiter, the quote character or a line break.
csv_field(field) ==
    IF \E k \in 1..Len(field) : field[k] \in {",", "\"", "\n", "\r"}
    THEN <<"\"">> \o csv_double_quotes(field) \o <<"\"">>
    ELSE field

\* writer.writerow(fields): the line written, without its terminator.
RECURSIVE csv_writerow(_)
csv_writerow(fields) ==
    IF fields = <<>> THEN <<>>
    ELSE IF Len(fields) = 1 THEN csv_field(fields[1])
    ELSE csv_field(Head(fields)) \o <<",">> \o csv_writerow(Tail(fields))

\* csv.reader on one line: the fields, read character by character. state is
\* where the parser is: at the start of a field, inside an unquoted field,
\* inside a quoted field, or after a quote character met in a quoted field.
RECURSIVE csv_read(_, _, _, _, _)
csv_read(line, k, state, field, fields) ==
    IF k > Len(line) THEN Append(fields, field)
    ELSE LET c == line[k] IN
         IF state = "start" /\ c = "\""
         THEN csv_read(line, k + 1, "quoted", field, fields)
         ELSE IF state = "quoted" /\ c = "\""
         THEN csv_read(line, k + 1, "quote_in_quoted", field, fields)
         ELSE IF state = "quoted"
         THEN csv_read(line, k + 1, "quoted", Append(field, c), fields)
         ELSE IF state = "quote_in_quoted" /\ c = "\""
         THEN csv_read(line, k + 1, "quoted", Append(field, c), fields)
         ELSE IF c = ","
         THEN csv_read(line, k + 1, "start", <<>>, Append(fields, field))
         ELSE csv_read(line, k + 1, "unquoted", Append(field, c), fields)

csv_reader_row(line) == csv_read(line, 1, "start", <<>>, <<>>)

\* The value SQLite reads for '<text>' in a statement: two apostrophes in a
\* row stand for one, and a single apostrophe ends the literal, after which
\* the rest of the text is not a well-formed statement.
RECURSIVE sql_string_literal(_)
sql_string_literal(text) ==
    IF text = <<>> THEN [ok |-> TRUE, value |-> <<>>]
    ELSE IF Head(text) # "'"
    THEN LET rest == sql_string_literal(Tail(text))
         IN  [ok |-> rest.ok, value |-> <<Head(text)>> \o rest.value]
    ELSE IF Len(text) >= 2 /\ text[2] = "'"
    THEN LET rest == sql_string_literal(Tail(Tail(text)))
         IN  [ok |-> rest.ok, value |-> <<"'">> \o rest.value]
    ELSE [ok |-> FALSE, value |-> <<>>]

\* The value SQLite reads for <text> pasted bare into a statement: digits,
\* or digits with a fraction of zero; anything else is not a number.
sql_numeric_literal(text) ==
    LET dot == {k \in 1..Len(text) : text[k] = "."}
        whole == IF dot = {} THEN text
                 ELSE SubSeq(text, 1, (CHOOSE k \in dot : TRUE) - 1)
        fraction == IF dot = {} THEN <<>>
                    ELSE SubSeq(text, (CHOOSE k \in dot : TRUE) + 1, Len(text))
        ok == /\ Cardinality(dot) <= 1
              /\ whole # <<>>
              /\ \A k \in 1..Len(whole) : IsDigit(whole[k])
              /\ (dot # {} => fraction # <<>>)
              /\ \A k \in 1..Len(fraction) : fraction[k] = "0"
    IN  [ok |-> ok, value |-> IF ok THEN digits_value(whole) ELSE 0]

(***************************************************************************)
(* The results file and the rows of the database.                          *)
(***************************************************************************)
\* The names a project can have in the results.
ProjectNames == {<<"A">>, <<"B", ",", "C">>, <<"O", "'", "B">>}

\* The names that can stand between apostrophes in a statement.
InsertableNames == {n \in ProjectNames : sql_string_literal(n).ok}

\* The results of the model, reduced to <<project, period, retire_mw>>.
CsvRows == ProjectNames \X {1} \X RetiredValues

CsvHeader == <<"p", "r", "o", "j", "e", "c", "t", ",", "p", "e", "r", "i",
               "o", "d", ",", "r", "e", "t", "i", "r", "e", "_", "m", "w">>

\* export_module_specific_results: the header, then one line per element
\* of the set, in the order of the set.
export_module_specific_results(rows) ==
    <<CsvHeader>> \o
        [k \in 1..Len(rows) |->
            csv_writerow(<<rows[k][1], str_int(rows[k][2]),
                           float_repr(rows[k][3])>>)]

\* The results files an import can meet: none, or the file an export wrote
\* (rows: what was exported; lines: the text of the file).
CsvFiles ==
    {[exists |-> FALSE, rows |-> <<>>, lines |-> <<>>]}
        \cup {[exists |-> TRUE, rows |-> r,
               lines |-> export_module_specific_results(r)] :
                  r \in SeqsUpTo(CsvRows, MaxCsvRows)}

\* A row of results_project_capacity_linear_economic_retirement or of its
\* temporary table.
ResultRow(scenario_id, csv_row) ==
    [scenario_id |-> scenario_id, project |-> csv_row[1],
     period |-> csv_row[2], retired_mw |-> csv_row[3]]

\* PRIMARY KEY (scenario_id, project, period)
SamePrimaryKey(r1, r2) ==
    /\ r1.scenario_id = r2.scenario_id
    /\ r1.project = r2.project
    /\ r1.period = r2.period

HasUniqueKeys(rows) ==
    \A r1, r2 \in rows : SamePrimaryKey(r1, r2) => r1 = r2

\* The rows a complete import of the exported rows leaves for a scenario.
ImportedRows(scenario_id, csv_rows) ==
    {ResultRow(scenario_id, csv_rows[i]) : i \in 1..Len(csv_rows)}

\* The contents the results table of a scenario can have before an import:
\* what an earlier complete import left.
EarlierResults(scenario_id) ==
    {rows \in {ImportedRows(scenario_id, r) :
                   r \in SeqsUpTo(InsertableNames \X {1} \X RetiredValues,
                                  Cardinality(InsertableNames))} :
        HasUniqueKeys(rows)}

NoTable == [exists |-> FALSE, rows |-> {}]

\* A mutant of the DELETE: no row is deleted.
delete_nothing(table, scenario_id) == table

\* DELETE FROM results_project_capacity_linear_economic_retirement
\* WHERE scenario_id = {}: the rows that stay.
delete_prior_results(table, scenario_id) ==
    {row \in table : row.scenario_id # scenario_id}

\* A mutant of the copy: a single row of the temporary table is copied.
insert_one_from_temp(results, temp_rows) ==
    results \cup (IF temp_rows = {} THEN {}
                  ELSE {CHOOSE row \in temp_rows : TRUE})

\* INSERT INTO results_project_capacity_linear_economic_retirement
\* SELECT ... FROM the temporary table ORDER BY scenario_id, project, period:
\* one statement, which copies every row of the temporary table.
insert_select_from_temp(results, temp_rows) == results \cup temp_rows

\* The INSERT statement of one csv row: the fields are pasted into the
\* statement by str.format, project between apostrophes, period and
\* retired_mw bare, and SQLite reads the values back from that text.
insert_statement(scenario_id, row) ==
    LET project == sql_string_literal(row[1])
        period == sql_numeric_literal(row[2])
        retired_mw == sql_numeric_literal(row[3])
    IN  [ok |-> project.ok /\ period.ok /\ retired_mw.ok,
         row |-> ResultRow(scenario_id,
                           <<project.value, period.value, retired_mw.value>>)]

\* The loop over the lines of the file after the header: the rows of the
\* temporary table after the loop, or the exception of the first statement
\* that SQLite cannot parse (OperationalError) or that repeats a primary key
\* (IntegrityError).
RECURSIVE insert_csv_rows(_, _, _, _)
insert_csv_rows(rows, scenario_id, lines, i) ==
    IF i > Len(lines) THEN [ok |-> TRUE, rows |-> rows, error |-> ""]
    ELSE LET new == insert_statement(scenario_id, csv_reader_row(lines[i])) IN
         IF ~new.ok
         THEN [ok |-> FALSE, rows |-> rows, error |-> "OperationalError"]
         ELSE IF \E old \in rows : SamePrimaryKey(old, new.row)
         THEN [ok |-> FALSE, rows |-> rows, error |-> "IntegrityError"]
         ELSE insert_csv_rows(rows \cup {new.row}, scenario_id, lines, i + 1)

(***************************************************************************)
(* The results sink: a results table that several imports write to, each   *)
(* for its own (scenario, subproblem, stage), each over its own database   *)
(* connection.                                                             *)
(***************************************************************************)
Importers == {1, 2}

MaxSinkRows == 2

SinkKeys == [scenario_id : ScenarioIds, subproblem : {1, 2}, stage : {1, 2}]

\* The value of subproblem_id and stage_id in a table without these columns.
NoColumn == 0

SinkCsvRows == {<<"A">>, <<"B">>} \X {1} \X {5}

\* The rows of a results file: a (project, period) at most once.
SinkFiles == {f \in SeqsUpTo(SinkCsvRows, MaxSinkRows) : IsInjective(f)}

\* The row an import for key writes for a row of its file. A table set up by
\* setup_results_import has the columns subproblem_id and stage_id (keyed);
\* results_project_capacity_linear_economic_retirement has scenario_id only.
SinkRow(keyed, key, csv_row) ==
    [scenario_id |-> key.scenario_id,
     subproblem_id |-> IF keyed THEN key.subproblem ELSE NoColumn,
     stage_id |-> IF keyed THEN key.stage ELSE NoColumn,
     project |-> csv_row[1], period |-> csv_row[2], retired_mw |-> csv_row[3]]

SinkRowsOf(keyed, key, file) ==
    {SinkRow(keyed, key, file[k]) : k \in 1..Len(file)}

\* The primary key of a row of the results table or of a staging table.
SameSinkKey(r1, r2) ==
    /\ r1.scenario_id = r2.scenario_id
    /\ r1.subproblem_id = r2.subproblem_id
    /\ r1.stage_id = r2.stage_id
    /\ r1.project = r2.project
    /\ r1.period = r2.period

\* setup_results_import: DELETE FROM table WHERE scenario_id = ? AND
\* subproblem_id = ? AND stage_id = ?: the rows that stay.
setup_results_import_delete(table, key) ==
    {row \in table : ~ /\ row.scenario_id = key.scenario_id
                       /\ row.subproblem_id = key.subproblem
                       /\ row.stage_id = key.stage}

\* The schemas a staging table can be in: the database itself (0) and the
\* temp schema of each connection, which no other connection sees.
StagingNames == ({0} \cup Importers) \X ScenarioIds

\* The staging table of importer i. setup_results_import creates
\* temp_<table><scenario_id> as a TEMPORARY table, in the temp schema of its
\* connection; the linear-retirement import creates
\* temp_results_project_capacity_linear_economic_retirement<scenario_id> as
\* a table of the database.
StagingName(keyed, i, key) ==
    IF keyed THEN <<i, key.scenario_id>> ELSE <<0, key.scenario_id>>

NoStaging == [exists |-> FALSE, rows |-> {}, creator |-> 0]

VARIABLES
    category,            \* the category whose loader is called
    required_modules,    \* the required subtype names handed to the loader
    package,             \* the contents of the category's package
    loaded,              \* the outcome of the call
    required_again,      \* the required names handed to a second call
    loaded_again,        \* the outcome of the second call
    phase,               \* per build: where the build is in its lifecycle
    projects_tab,        \* per build: the rows of inputs/projects.tab
    specified_file,      \* per build: specified_generation_period_params.tab
    existing_file,       \* per build: existing_generation_period_params.tab
    required_capacity_modules, \* per build: the capacity types to load
    next_module,         \* per build: index of the module whose hook is next
    d,                   \* per build: its dynamic components object
    data_portal,         \* per build: set name -> the data loaded for it
    PRJ_OPR_PRDS,        \* per build: the joined set, in iteration order
    build_error,         \* per build: the exception that ended the build
    appended,            \* per build: the set names its own hooks appended
    hook_log,            \* per build: the hooks invoked, as <<phase, module>>
    collected,           \* per build: the failures collected, per module
    config_defects,      \* per build: the modules flagged for having
                         \* entities and no export hook
    validation_sink,     \* per build: the validation findings written
    results_dir,         \* per build: whether the results directory exists
    results_file,        \* per build: whether the results file was written
    check_errors,        \* per build: the errors the checks of
                         \* project.operations find in the inputs
    prm_type_column,     \* the prm_type column of projects.tab
    prm_package,         \* the contents of the prm_types package
    prm_d,               \* the PRM attributes of the dynamic components object
    group_sets,          \* set name -> the groups of the set
    imported_prm_modules,\* the outcome of load_prm_type_modules
    PRM_COST_GROUPS,     \* the joined set of cost groups
    group_prm_type,      \* the Param: group -> PRM type
    dispatch_pc,         \* where the construction of the components is
    dispatch_error,      \* the exception that ended it
    dispatched,          \* the last evaluation of group_cost_rule
    results_table,       \* the committed rows of the results table
    temp_table,          \* the committed temporary table of the scenario
    csv_file,            \* the results file the import reads
    import_scenario_id,  \* the scenario whose results are imported
    import_pc,           \* the statement the import is at
    import_error,        \* the exception that ended the import
    committed_steps,     \* how many statements of the import were committed
    prior_results,       \* the results table as it was before the import
    export_rows,         \* the results the solved model holds, in set order
    cycle,               \* how many export/import cycles were started
    sink_keyed,          \* whether the results table has the columns
                         \* subproblem_id and stage_id
    sink_concurrent,     \* whether the imports run at the same time
    imp_key,             \* per importer: its (scenario, subproblem, stage)
    imp_file,            \* per importer: the rows of its results file
    imp_pc,              \* per importer: the statement it is at
    imp_error,           \* per importer: the exception that ended it
    sink,                \* the committed rows of the results table
    staging,             \* staging table name -> the table
    param_type,          \* the capacity type whose load hook is called
    param_tab,           \* the rows of projects.tab the hook reads
    param_file,          \* the rows of the period-params file it reads
    param_loaded,        \* what the hook put into the data portal
    SCENARIO_STATUS,     \* scenario id -> [process_id]
    processes,           \* the processes started, in order: [name, pid]
    emitted,             \* the events emitted to the client, in order
    handled,             \* the events handled, in order: [event, message]
    status_reply         \* what check_scenario_process_status returned last

loadVars == <<category, required_modules, package, loaded, required_again,
              loaded_again>>

buildVars == <<phase, projects_tab, specified_file, existing_file,
               required_capacity_modules, next_module, d, data_portal,
               PRJ_OPR_PRDS, build_error, appended>>

dispatchVars == <<prm_type_column, prm_package, prm_d, group_sets,
                  imported_prm_modules, PRM_COST_GROUPS, group_prm_type,
                  dispatch_pc, dispatch_error, dispatched>>

importVars == <<results_table, temp_table, csv_file, import_scenario_id,
                import_pc, import_error, committed_steps, prior_results>>

lifecycleVars == <<hook_log, collected, config_defects, validation_sink, results_dir,
                   results_file, check_errors>>

exportVars == <<export_rows, cycle>>

sinkVars == <<sink_keyed, sink_concurrent, imp_key, imp_file, imp_pc,
              imp_error, sink, staging>>

paramVars == <<param_type, param_tab, param_file, param_loaded>>

serverVars == <<SCENARIO_STATUS, processes, emitted, handled, status_reply>>

restVars == <<sinkVars, paramVars, serverVars>>

vars == <<loadVars, buildVars, lifecycleVars, dispatchVars, importVars,
          exportVars, restVars>>

nonLoadVars == <<buildVars, lifecycleVars, dispatchVars, importVars,
                 exportVars, restVars>>

nonBuildVars == <<loadVars, dispatchVars, importVars, exportVars, restVars>>

nonDispatchVars == <<loadVars, buildVars, lifecycleVars, importVars,
                     exportVars, restVars>>

nonImportVars == <<loadVars, buildVars, lifecycleVars, dispatchVars,
                   exportVars, restVars>>

\* No import into the shared results table is run.
SinkIdle ==
    /\ sink_keyed = FALSE
    /\ sink_concurrent = FALSE
    /\ imp_key = [i \in Importers |->
                     [scenario_id |-> 1, subproblem |-> 1, stage |-> 1]]
    /\ imp_file = [i \in Importers |-> <<>>]
    /\ imp_pc = [i \in Importers |-> "absent"]
    /\ imp_error = [i \in Importers |-> ""]
    /\ sink = {}
    /\ staging = [n \in StagingNames |-> NoStaging]

\* No load hook is called on its own.
ParamIdle ==
    /\ param_type = "gen_spec"
    /\ param_tab = <<>>
    /\ param_file = <<>>
    /\ param_loaded = [status |-> "not_called", data |-> NoParams]

\* The server as the module leaves it when it is imported.
ServerIdle ==
    /\ SCENARIO_STATUS = EmptyDict
    /\ processes = <<>>
    /\ emitted = <<>>
    /\ handled = <<>>
    /\ status_reply = FALSE

RestIdle == SinkIdle /\ ParamIdle /\ ServerIdle

\* No export/import cycle is run.
ExportIdle ==
    /\ export_rows = <<>>
    /\ cycle = 0

(***************************************************************************)
(* The loader called on its own.                                           *)
(***************************************************************************)
InitLoad ==
    /\ category \in Categories
    /\ required_modules \in SeqsUpTo(TypeNames(category), MaxRequired)
    /\ package \in Packages(category)
    /\ loaded = NotCalled
    /\ required_again = <<>>
    /\ loaded_again = NotCalled

LoadIdle ==
    /\ category = "capacity"
    /\ required_modules = <<>>
    /\ package = EmptyDict
    /\ loaded = NotCalled
    /\ required_again = <<>>
    /\ loaded_again = NotCalled

\* One call of the category's loader.
LoadModules ==
    /\ loaded.status = "not_called"
    /\ loaded' = IF category = "capacity"
                 THEN load_gen_storage_capacity_type_modules(
                          required_modules, package)
                 ELSE load_prm_type_modules(required_modules, package)
    /\ UNCHANGED <<category, required_modules, package, required_again,
                   loaded_again>>
    /\ UNCHANGED nonLoadVars

\* A second call of the loader with the same package and a list of the same
\* names, in any order and with any repetition.
LoadModulesAgain ==
    /\ loaded.status # "not_called"
    /\ loaded_again.status = "not_called"
    /\ \E again \in SeqsUpTo(TypeNames(category), MaxRequired) :
           /\ Range(again) = Range(required_modules)
           /\ required_again' = again
           /\ loaded_again' = IF category = "capacity"
                              THEN load_gen_storage_capacity_type_modules(
                                       again, package)
                              ELSE load_prm_type_modules(again, package)
    /\ UNCHANGED <<category, required_modules, package, loaded>>
    /\ UNCHANGED nonLoadVars

(***************************************************************************)
(* A scenario build: determine the required modules, register, load data   *)
(* and create the instance, whose PRJ_OPR_PRDS set is initialised by       *)
(* join_sets.                                                              *)
(***************************************************************************)
\* A mutant: one process-wide object serves every build.
SharedRegistry(b) == 1

\* The dynamic components object the hooks of build b are handed: the one
\* the build created for itself (d = DynamicComponents()).
RegistryOf(b) == b

(***************************************************************************)
(* The hooks of the phases after the solve.                                *)
(***************************************************************************)
\* The phase hooks each capacity-type module defines.
ModuleHooks(type) ==
    CASE type = "gen_spec" -> {"register", "load_data", "validate"}
      [] type = "existing_gen_linear_economic_retirement" ->
             {"register", "load_data", "export_results", "import_results"}
      [] type = "existing_gen_no_economic_retirement" ->
             {"register", "load_data"}

\* A mutant of the export hook: it appends its set name to the list of d.
lin_econ_ret_export_registering(dir_exists, dd) ==
    [ok |-> dir_exists, error |-> IF dir_exists THEN "" ELSE "IOError",
     d |-> lin_econ_ret_add_module_specific_components(dd)]

\* export_module_specific_results(scenario_directory, horizon, stage, m, d)
\* of existing_gen_linear_economic_retirement: the results file is opened
\* for writing in the results directory, which raises IOError when the
\* directory does not exist; d is handed in and left as it is.
lin_econ_ret_export_module_specific_results(dir_exists, dd) ==
    [ok |-> dir_exists, error |-> IF dir_exists THEN "" ELSE "IOError",
     d |-> dd]

\* import_module_specific_results_into_database of the same module: the
\* results file is opened for reading, which raises IOError when no export
\* wrote it.
lin_econ_ret_import_module_specific_results(file_exists) ==
    [ok |-> file_exists, error |-> IF file_exists THEN "" ELSE "IOError"]

\* validate_module_specific_inputs of gen_spec: the findings written to the
\* database; here the gen_spec projects without specified capacity and
\* fixed cost in any period, each reported with severity High.
gen_spec_validate_module_specific_inputs(tab, file) ==
    LET projects == determine_gen_spec_projects(tab)
        spec_projects == {file[i][1] : i \in 1..Len(file)}
        missing == SelectSeq(projects, LAMBDA prj : prj \notin spec_projects)
    IN  [i \in 1..Len(missing) |->
            [module |-> "gen_spec",
             finding |-> <<"inputs_project_specified_capacity", "High",
                           missing[i]>>]]

\* What the four checks of project.operations.validate_inputs find: the
\* errors of the dtype check, of the sign check, of
\* validate_fuel_vs_heat_rates and of validate_heat_rate_curves.
NoCheckErrors == [dtype |-> <<>>, sign |-> <<>>, fuel |-> <<>>, curves |-> <<>>]

CheckErrorInputs ==
    [dtype : {<<>>, <<"e1">>}, sign : {<<>>, <<"e2">>},
     fuel : {<<>>, <<"e3">>}, curves : {<<>>, <<"e4">>}]

OperationsModule == "gridpath.project.operations"

\* A mutant of validate_inputs: the findings of the first check that finds
\* any are the only ones reported.
validate_inputs_first_check_only(scenario_id, errors) ==
    LET found == IF errors.dtype # <<>> THEN errors.dtype
                 ELSE IF errors.sign # <<>> THEN errors.sign
                 ELSE IF errors.fuel # <<>> THEN errors.fuel
                 ELSE errors.curves
    IN  [i \in 1..Len(found) |->
            <<scenario_id, 1, 1, OperationsModule, "PROJECT_HEAT_RATE_CURVES",
              "inputs_project_heat_rate_curves", "High", "Invalid input",
              found[i]>>]

\* validate_inputs of project.operations: validation_results, the list the
\* four checks append their findings to and that is written to the database
\* in one call at the end. The tuple of a fuel finding has eight items, not
\* nine: its severity and its type are one string, as the source has no
\* comma between the two literals.
validate_inputs(scenario_id, errors) ==
    [i \in 1..Len(errors.dtype) |->
        <<scenario_id, 1, 1, OperationsModule, "PROJECT_HEAT_RATE_CURVES",
          "inputs_project_heat_rate_curves", "High", "Invalid data type",
          errors.dtype[i]>>]
    \o [i \in 1..Len(errors.sign) |->
        <<scenario_id, 1, 1, OperationsModule, "PROJECT_HEAT_RATE_CURVES",
          "inputs_project_heat_rate_curves", "High", "Invalid numeric sign",
          errors.sign[i]>>]
    \o [i \in 1..Len(errors.fuel) |->
        <<scenario_id, 1, 1, OperationsModule, "PROJECT_OPERATIONAL_CHARS",
          "inputs_project_operational_chars",
          "HighMissing/Unnecessary heat rate scenario inputs",
          errors.fuel[i]>>]
    \o [i \in 1..Len(errors.curves) |->
        <<scenario_id, 1, 1, OperationsModule, "PROJECT_HEAT_RATE_CURVES",
          "inputs_project_heat_rate_curves", "High",
          "Invalid/Missing heat rate curves inputs", errors.curves[i]>>]

BuildCommonInit ==
    /\ required_capacity_modules = [b \in Builds |-> <<>>]
    /\ next_module = [b \in Builds |-> 1]
    /\ d = [b \in Builds |-> NewDynamicComponents]
    /\ data_portal = [b \in Builds |-> EmptyDict]
    /\ PRJ_OPR_PRDS = [b \in Builds |-> <<>>]
    /\ build_error = [b \in Builds |-> <<>>]
    /\ appended = [b \in Builds |-> <<>>]
    /\ hook_log = [b \in Builds |-> <<>>]
    /\ collected = [b \in Builds |-> <<>>]
    /\ config_defects = [b \in Builds |-> {}]
    /\ validation_sink = [b \in Builds |-> <<>>]
    /\ results_file = [b \in Builds |-> FALSE]

\* The inputs of the phases after the solve, for builds that stop before it.
LifecycleInputsIdle ==
    /\ results_dir = [b \in Builds |-> TRUE]
    /\ check_errors = [b \in Builds |-> NoCheckErrors]

BuildIdle ==
    /\ phase = [b \in Builds |-> "absent"]
    /\ projects_tab = [b \in Builds |-> <<>>]
    /\ specified_file = [b \in Builds |-> <<>>]
    /\ existing_file = [b \in Builds |-> <<>>]
    /\ BuildCommonInit
    /\ LifecycleInputsIdle

\* The inputs of a scenario: projects.tab and the two period-params files.
ScenarioInputs(b, pt, sf, ef) ==
    /\ projects_tab = [x \in Builds |-> IF x = b THEN pt ELSE <<>>]
    /\ specified_file = [x \in Builds |-> IF x = b THEN sf ELSE <<>>]
    /\ existing_file = [x \in Builds |-> IF x = b THEN ef ELSE <<>>]

\* One build of any scenario.
InitBuild ==
    /\ phase = [b \in Builds |-> IF b = 1 THEN "determine" ELSE "absent"]
    /\ \E pt \in ProjectsTabs, sf \in PeriodParamFiles,
          ef \in PeriodParamFiles : ScenarioInputs(1, pt, sf, ef)
    /\ BuildCommonInit
    /\ LifecycleInputsIdle
    /\ LoadIdle

\* The period-params file of the scenarios that are built concurrently.
ConcurrentFile == << <<"A", 1>>, <<"B", 1>> >>

\* The projects.tab files that declare one capacity type per project.
OneTypeProjectsTabs ==
    {t \in ProjectsTabs : \A i, j \in 1..Len(t) : t[i][1] = t[j][1] => i = j}

\* Two builds of two scenarios, running at the same time.
InitConcurrent ==
    /\ phase = [b \in Builds |-> "determine"]
    /\ projects_tab \in [Builds -> OneTypeProjectsTabs]
    /\ specified_file = [b \in Builds |-> ConcurrentFile]
    /\ existing_file = [b \in Builds |-> ConcurrentFile]
    /\ BuildCommonInit
    /\ LifecycleInputsIdle
    /\ LoadIdle

\* determine_dynamic_components: the capacity types of projects.tab, each
\* once, and the empty list of sets to join.
DetermineDynamicComponents(b) ==
    /\ phase[b] = "determine"
    /\ LET types == Unique([i \in 1..Len(projects_tab[b]) |->
                               projects_tab[b][i][2]])
       IN  /\ required_capacity_modules' =
                  [required_capacity_modules EXCEPT ![b] = types]
           /\ phase' = [phase EXCEPT ![b] =
                            IF types = <<>> THEN "instance" ELSE "register"]
    /\ UNCHANGED <<projects_tab, specified_file, existing_file, next_module,
                   d, data_portal, PRJ_OPR_PRDS, build_error, appended>>
    /\ UNCHANGED lifecycleVars
    /\ UNCHANGED nonBuildVars

\* A mutant of REGISTER: the data loading starts as soon as the first
\* registration hook has run.
RegisterFirstOnly(b) ==
    /\ phase[b] = "register"
    /\ LET type == required_capacity_modules[b][next_module[b]]
           r == RegistryOf(b)
       IN  /\ d' = [d EXCEPT ![r] = RegistrationHook(type, d[r])]
           /\ appended' = [appended EXCEPT ![b] =
                               Append(@, OperationalPeriodSet(type))]
           /\ next_module' = [next_module EXCEPT ![b] = 1]
           /\ phase' = [phase EXCEPT ![b] = "load_data"]
           /\ hook_log' = [hook_log EXCEPT ![b] =
                               Append(@, <<"register", type>>)]
    /\ UNCHANGED <<projects_tab, specified_file, existing_file,
                   required_capacity_modules, data_portal, PRJ_OPR_PRDS,
                   build_error>>
    /\ UNCHANGED <<collected, config_defects, validation_sink, results_dir, results_file,
                   check_errors>>
    /\ UNCHANGED nonBuildVars

\* REGISTER: the registration hook of the next required module.
Register(b) ==
    /\ phase[b] = "register"
    /\ LET type == required_capacity_modules[b][next_module[b]]
           r == RegistryOf(b)
           last == next_module[b] = Len(required_capacity_modules[b])
       IN  /\ d' = [d EXCEPT ![r] = RegistrationHook(type, d[r])]
           /\ appended' = [appended EXCEPT ![b] =
                               Append(@, OperationalPeriodSet(type))]
           /\ next_module' = [next_module EXCEPT ![b] =
                                  IF last THEN 1 ELSE @ + 1]
           /\ phase' = [phase EXCEPT ![b] =
                            IF last THEN "load_data" ELSE "register"]
           /\ hook_log' = [hook_log EXCEPT ![b] =
                               Append(@, <<"register", type>>)]
    /\ UNCHANGED <<projects_tab, specified_file, existing_file,
                   required_capacity_modules, data_portal, PRJ_OPR_PRDS,
                   build_error>>
    /\ UNCHANGED <<collected, config_defects, validation_sink, results_dir, results_file,
                   check_errors>>
    /\ UNCHANGED nonBuildVars

\* LOAD_DATA: the data-load hook of the next required module; an exception
\* of the hook ends the build.
LoadData(b) ==
    /\ phase[b] = "load_data"
    /\ LET type == required_capacity_modules[b][next_module[b]]
           res == LoadDataHook(type, projects_tab[b], specified_file[b],
                               existing_file[b])
           last == next_module[b] = Len(required_capacity_modules[b])
       IN  /\ hook_log' = [hook_log EXCEPT ![b] =
                               Append(@, <<"load_data", type>>)]
           /\ IF res.ok
              THEN /\ data_portal' = [data_portal EXCEPT ![b] =
                                          DictPut(@, res.set, res.data)]
                   /\ next_module' = [next_module EXCEPT ![b] =
                                          IF last THEN 1 ELSE @ + 1]
                   /\ phase' = [phase EXCEPT ![b] =
                                    IF last THEN "instance" ELSE "load_data"]
                   /\ UNCHANGED build_error
              ELSE /\ phase' = [phase EXCEPT ![b] = "failed"]
                   /\ build_error' = [build_error EXCEPT ![b] = res.error]
                   /\ UNCHANGED <<data_portal, next_module>>
    /\ UNCHANGED <<projects_tab, specified_file, existing_file,
                   required_capacity_modules, d, PRJ_OPR_PRDS, appended>>
    /\ UNCHANGED <<collected, config_defects, validation_sink, results_dir, results_file,
                   check_errors>>
    /\ UNCHANGED nonBuildVars

\* The instance is created: PRJ_OPR_PRDS is initialised by join_sets over the
\* names in the build's list.
CreateInstance(b) ==
    /\ phase[b] = "instance"
    /\ \E joined \in join_sets(
              data_portal[b],
              d[RegistryOf(b)].capacity_type_operational_period_sets) :
           PRJ_OPR_PRDS' = [PRJ_OPR_PRDS EXCEPT ![b] = joined]
    /\ phase' = [phase EXCEPT ![b] = "done"]
    /\ UNCHANGED <<projects_tab, specified_file, existing_file,
                   required_capacity_modules, next_module, d, data_portal,
                   build_error, appended>>
    /\ UNCHANGED lifecycleVars
    /\ UNCHANGED nonBuildVars

(***************************************************************************)
(* The phases after the model is built. Each phase walks the required      *)
(* modules in order; a module without a hook for the phase is passed over, *)
(* and a hook that fails is recorded and the walk goes on.                 *)
(***************************************************************************)
\* The period-params files of the builds that run every phase.
LifecycleFiles == {<<>>, << <<"A", 1>> >>, ConcurrentFile}

\* One build that runs every phase.
InitLifecycle ==
    /\ phase = [b \in Builds |-> IF b = 1 THEN "determine" ELSE "absent"]
    /\ \E pt \in ProjectsTabs, sf \in LifecycleFiles :
           ScenarioInputs(1, pt, sf, ConcurrentFile)
    /\ BuildCommonInit
    /\ \E dir \in BOOLEAN :
           results_dir = [b \in Builds |-> IF b = 1 THEN dir ELSE TRUE]
    /\ \E errors \in CheckErrorInputs :
           check_errors = [b \in Builds |->
                              IF b = 1 THEN errors ELSE NoCheckErrors]
    /\ LoadIdle

\* The external solve: the model is handed to the solver and the phases that
\* handle results start.
Solve(b) ==
    /\ phase[b] = "done"
    /\ phase' = [phase EXCEPT ![b] = "export_results"]
    /\ next_module' = [next_module EXCEPT ![b] = 1]
    /\ UNCHANGED <<projects_tab, specified_file, existing_file,
                   required_capacity_modules, d, data_portal, PRJ_OPR_PRDS,
                   build_error, appended>>
    /\ UNCHANGED lifecycleVars
    /\ UNCHANGED nonBuildVars

\* A mutant of the test below: no module is found to lack an export hook.
MissingExportHookNever(type, mod) == FALSE

\* A module that has entities in the canonical set and no export hook.
MissingExportHook(type, mod) ==
    /\ "export_results" \notin ModuleHooks(type)
    /\ SetOf(mod, OperationalPeriodSet(type)) # <<>>

\* VALIDATE is invoked independently of the solve state: once the required
\* modules are known the inputs can be validated without building the model.
ValidateOnly(b) ==
    /\ phase[b] = "register"
    /\ hook_log[b] = <<>>
    /\ phase' = [phase EXCEPT ![b] = "validate"]
    /\ UNCHANGED <<projects_tab, specified_file, existing_file,
                   required_capacity_modules, next_module, d, data_portal,
                   PRJ_OPR_PRDS, build_error, appended>>
    /\ UNCHANGED lifecycleVars
    /\ UNCHANGED nonBuildVars

\* EXPORT_RESULTS: the export hook of the next required module, or the end
\* of the phase.
ExportPhase(b) ==
    /\ phase[b] = "export_results"
    /\ IF next_module[b] > Len(required_capacity_modules[b])
       THEN /\ phase' = [phase EXCEPT ![b] = "import_results"]
            /\ next_module' = [next_module EXCEPT ![b] = 1]
            /\ UNCHANGED <<d, hook_log, collected, results_file,
                           config_defects>>
       ELSE LET type == required_capacity_modules[b][next_module[b]]
                r == RegistryOf(b)
                res == lin_econ_ret_export_module_specific_results(
                           results_dir[b], d[r])
            IN  /\ next_module' = [next_module EXCEPT ![b] = @ + 1]
                /\ UNCHANGED phase
                /\ IF "export_results" \in ModuleHooks(type)
                   THEN /\ hook_log' = [hook_log EXCEPT ![b] =
                                            Append(@, <<"export_results", type>>)]
                        /\ d' = [d EXCEPT ![r] = res.d]
                        /\ results_file' = [results_file EXCEPT ![b] = res.ok]
                        /\ collected' =
                               IF res.ok THEN collected
                               ELSE [collected EXCEPT ![b] =
                                        Append(@, <<"export_results", type,
                                                    res.error>>)]
                        /\ UNCHANGED config_defects
                   ELSE /\ config_defects' =
                               IF MissingExportHook(type, data_portal[b])
                               THEN [config_defects EXCEPT ![b] =
                                        @ \cup {type}]
                               ELSE config_defects
                        /\ UNCHANGED <<d, hook_log, collected, results_file>>
    /\ UNCHANGED <<projects_tab, specified_file, existing_file,
                   required_capacity_modules, data_portal, PRJ_OPR_PRDS,
                   build_error, appended>>
    /\ UNCHANGED <<validation_sink, results_dir, check_errors>>
    /\ UNCHANGED nonBuildVars

\* IMPORT_RESULTS: the import hook of the next required module, or the end
\* of the phase.
ImportPhase(b) ==
    /\ phase[b] = "import_results"
    /\ IF next_module[b] > Len(required_capacity_modules[b])
       THEN /\ phase' = [phase EXCEPT ![b] = "validate"]
            /\ next_module' = [next_module EXCEPT ![b] = 1]
            /\ UNCHANGED <<hook_log, collected>>
       ELSE LET type == required_capacity_modules[b][next_module[b]]
                res == lin_econ_ret_import_module_specific_results(
                           results_file[b])
            IN  /\ next_module' = [next_module EXCEPT ![b] = @ + 1]
                /\ UNCHANGED phase
                /\ IF "import_results" \in ModuleHooks(type)
                   THEN /\ hook_log' = [hook_log EXCEPT ![b] =
                                            Append(@, <<"import_results", type>>)]
                        /\ collected' =
                               IF res.ok THEN collected
                               ELSE [collected EXCEPT ![b] =
                                        Append(@, <<"import_results", type,
                                                    res.error>>)]
                   ELSE UNCHANGED <<hook_log, collected>>
    /\ UNCHANGED <<projects_tab, specified_file, existing_file,
                   required_capacity_modules, d, data_portal, PRJ_OPR_PRDS,
                   build_error, appended>>
    /\ UNCHANGED <<config_defects, validation_sink, results_dir, results_file,
                   check_errors>>
    /\ UNCHANGED nonBuildVars

\* VALIDATE: the validation hook of the next required module and, after the
\* last of them, validate_inputs of project.operations; the findings of each
\* are appended to the validation table.
ValidatePhase(b) ==
    /\ phase[b] = "validate"
    /\ IF next_module[b] > Len(required_capacity_modules[b])
       THEN /\ phase' = [phase EXCEPT ![b] = "finished"]
            /\ next_module' = [next_module EXCEPT ![b] = 1]
            /\ hook_log' = [hook_log EXCEPT ![b] =
                                Append(@, <<"validate", OperationsModule>>)]
            /\ validation_sink' =
                   [validation_sink EXCEPT ![b] =
                       @ \o [i \in 1..Len(validate_inputs(b, check_errors[b]))
                                |-> [module |-> OperationsModule,
                                     finding |->
                                         validate_inputs(b, check_errors[b])[i]]]]
       ELSE LET type == required_capacity_modules[b][next_module[b]]
            IN  /\ next_module' = [next_module EXCEPT ![b] = @ + 1]
                /\ UNCHANGED phase
                /\ IF "validate" \in ModuleHooks(type)
                   THEN /\ hook_log' = [hook_log EXCEPT ![b] =
                                            Append(@, <<"validate", type>>)]
                        /\ validation_sink' =
                               [validation_sink EXCEPT ![b] =
                                   @ \o gen_spec_validate_module_specific_inputs(
                                            projects_tab[b], specified_file[b])]
                   ELSE UNCHANGED <<hook_log, validation_sink>>
    /\ UNCHANGED <<projects_tab, specified_file, existing_file,
                   required_capacity_modules, d, data_portal, PRJ_OPR_PRDS,
                   build_error, appended>>
    /\ UNCHANGED <<collected, config_defects, results_dir, results_file,
                   check_errors>>
    /\ UNCHANGED nonBuildVars

(***************************************************************************)
(* The PRM group-cost components of one build.                             *)
(***************************************************************************)
\* The PRM attributes of d as the PRM type modules leave them: the names of
\* the first n group sets, each with the type of the module that declared it.
PrmRegistries ==
    UNION {{[prm_cost_group_sets |-> SubSeq(GroupSetNames, 1, n),
             prm_cost_group_prm_type |-> types] :
               types \in [{GroupSetNames[i] : i \in 1..n} -> PrmTypes]} :
           n \in 0..Len(GroupSetNames)}

DispatchCommonInit ==
    /\ imported_prm_modules = NotCalled
    /\ PRM_COST_GROUPS = <<>>
    /\ group_prm_type = EmptyDict
    /\ dispatch_error = <<>>
    /\ dispatched = NoDispatch

DispatchIdle ==
    /\ prm_type_column = <<>>
    /\ prm_package = EmptyDict
    /\ prm_d = [prm_cost_group_sets |-> <<>>,
                prm_cost_group_prm_type |-> EmptyDict]
    /\ group_sets = EmptyDict
    /\ dispatch_pc = "absent"
    /\ DispatchCommonInit

InitDispatch ==
    /\ prm_type_column \in PrmTypeColumns
    /\ prm_package \in Packages("prm")
    /\ prm_d \in PrmRegistries
    /\ group_sets \in [Range(prm_d.prm_cost_group_sets) -> GroupLists]
    /\ dispatch_pc = "add_model_components"
    /\ DispatchCommonInit
    /\ LoadIdle
    /\ BuildIdle

\* add_model_components: the components are declared and the PRM modules of
\* the projects' prm types are imported.
AddModelComponents ==
    /\ dispatch_pc = "add_model_components"
    /\ LET res == load_prm_type_modules(
                      required_prm_modules(prm_type_column), prm_package)
       IN  /\ imported_prm_modules' = res
           /\ IF res.status = "raised"
              THEN /\ dispatch_pc' = "failed"
                   /\ dispatch_error' = res.error
              ELSE /\ dispatch_pc' = "PRM_COST_GROUPS"
                   /\ UNCHANGED dispatch_error
    /\ UNCHANGED <<prm_type_column, prm_package, prm_d, group_sets,
                   PRM_COST_GROUPS, group_prm_type, dispatched>>
    /\ UNCHANGED nonDispatchVars

\* The instance constructs PRM_COST_GROUPS: join_sets over the group sets.
ConstructCostGroups ==
    /\ dispatch_pc = "PRM_COST_GROUPS"
    /\ \E joined \in join_sets(group_sets, prm_d.prm_cost_group_sets) :
           PRM_COST_GROUPS' = joined
    /\ dispatch_pc' = "group_prm_type"
    /\ UNCHANGED <<prm_type_column, prm_package, prm_d, group_sets,
                   imported_prm_modules, group_prm_type, dispatch_error,
                   dispatched>>
    /\ UNCHANGED nonDispatchVars

\* The instance constructs group_prm_type over PRM_COST_GROUPS; a value
\* outside the Param's domain is a ValueError.
ConstructGroupPrmType ==
    /\ dispatch_pc = "group_prm_type"
    /\ LET init == [g \in Range(PRM_COST_GROUPS) |->
                        group_prm_type_init(group_sets, prm_d, g)]
           bad == {g \in DOMAIN init : init[g] \notin GroupPrmTypeWithin}
       IN  IF bad = {}
           THEN /\ group_prm_type' = init
                /\ dispatch_pc' = "PRM_Group_Costs"
                /\ UNCHANGED dispatch_error
           ELSE /\ dispatch_pc' = "failed"
                /\ dispatch_error' = <<"ValueError", bad>>
                /\ UNCHANGED group_prm_type
    /\ UNCHANGED <<prm_type_column, prm_package, prm_d, group_sets,
                   imported_prm_modules, PRM_COST_GROUPS, dispatched>>
    /\ UNCHANGED nonDispatchVars

\* The instance evaluates the rule of PRM_Group_Costs for one index; an
\* exception of the rule ends the construction.
EvaluateGroupCost ==
    /\ dispatch_pc = "PRM_Group_Costs"
    /\ \E group \in Range(PRM_COST_GROUPS), p \in Periods :
           LET res == group_cost_rule(imported_prm_modules.modules,
                                      group_prm_type, group, p)
           IN  /\ dispatched' = res
               /\ IF res.outcome = "value"
                  THEN /\ dispatch_pc' = "evaluated"
                       /\ UNCHANGED dispatch_error
                  ELSE /\ dispatch_pc' = "failed"
                       /\ dispatch_error' = <<res.outcome, res.key>>
    /\ UNCHANGED <<prm_type_column, prm_package, prm_d, group_sets,
                   imported_prm_modules, PRM_COST_GROUPS, group_prm_type>>
    /\ UNCHANGED nonDispatchVars

(***************************************************************************)
(* One import of the results of a scenario. A statement and the commit     *)
(* that follows it are one step: SQLite rolls back what a terminated       *)
(* process had not committed, so the database only ever shows the states   *)
(* between these steps.                                                    *)
(***************************************************************************)
ImportTablesIdle ==
    /\ results_table = {}
    /\ temp_table = NoTable
    /\ csv_file = [exists |-> FALSE, rows |-> <<>>, lines |-> <<>>]
    /\ import_scenario_id = 1
    /\ import_pc = "absent"
    /\ import_error = ""
    /\ committed_steps = 0
    /\ prior_results = {}

ImportIdle == ImportTablesIdle /\ ExportIdle /\ RestIdle

InitImport ==
    /\ import_scenario_id = 1
    /\ \E own \in EarlierResults(1), other \in EarlierResults(2) :
           /\ Cardinality(other) <= 1
           /\ results_table = own \cup other
    /\ prior_results = results_table
    /\ temp_table \in {NoTable,
                       [exists |-> TRUE,
                        rows |-> {ResultRow(1, <<<<"A">>, 1, 0>>)}]}
    /\ csv_file \in CsvFiles
    /\ import_pc = "delete"
    /\ import_error = ""
    /\ committed_steps = 0
    /\ ExportIdle
    /\ RestIdle
    /\ LoadIdle
    /\ BuildIdle
    /\ DispatchIdle

\* DELETE the scenario's rows from the results table; commit.
DeletePriorResults ==
    /\ import_pc = "delete"
    /\ results_table' = delete_prior_results(results_table, import_scenario_id)
    /\ import_pc' = "drop_temp"
    /\ committed_steps' = committed_steps + 1
    /\ UNCHANGED <<temp_table, csv_file, import_scenario_id, import_error,
                   prior_results>>
    /\ UNCHANGED nonImportVars

\* DROP TABLE IF EXISTS temp_...<scenario_id>; commit.
DropTempIfExists ==
    /\ import_pc = "drop_temp"
    /\ temp_table' = NoTable
    /\ import_pc' = "create_temp"
    /\ committed_steps' = committed_steps + 1
    /\ UNCHANGED <<results_table, csv_file, import_scenario_id, import_error,
                   prior_results>>
    /\ UNCHANGED nonImportVars

\* CREATE TABLE temp_...<scenario_id>; commit.
CreateTemp ==
    /\ import_pc = "create_temp"
    /\ IF temp_table.exists
       THEN /\ import_pc' = "failed"
            /\ import_error' = "OperationalError"
            /\ UNCHANGED <<temp_table, committed_steps>>
       ELSE /\ temp_table' = [exists |-> TRUE, rows |-> {}]
            /\ import_pc' = "load"
            /\ committed_steps' = committed_steps + 1
            /\ UNCHANGED import_error
    /\ UNCHANGED <<results_table, csv_file, import_scenario_id, prior_results>>
    /\ UNCHANGED nonImportVars

\* The results file is opened and each of its rows inserted into the
\* temporary table; commit after the last one. A missing file or a repeated
\* primary key raises before the commit.
LoadResultsIntoTemp ==
    /\ import_pc = "load"
    /\ IF ~csv_file.exists
       THEN /\ import_pc' = "failed"
            /\ import_error' = "IOError"
            /\ UNCHANGED <<temp_table, committed_steps>>
       ELSE LET res == insert_csv_rows(temp_table.rows, import_scenario_id,
                                       csv_file.lines, 2)
            IN  IF res.ok
                THEN /\ temp_table' = [temp_table EXCEPT !.rows = res.rows]
                     /\ import_pc' = "insert"
                     /\ committed_steps' = committed_steps + 1
                     /\ UNCHANGED import_error
                ELSE /\ import_pc' = "failed"
                     /\ import_error' = res.error
                     /\ UNCHANGED <<temp_table, committed_steps>>
    /\ UNCHANGED <<results_table, csv_file, import_scenario_id, prior_results>>
    /\ UNCHANGED nonImportVars

\* INSERT INTO the results table SELECT ... FROM the temporary table; commit.
InsertIntoResults ==
    /\ import_pc = "insert"
    /\ results_table' = insert_select_from_temp(results_table, temp_table.rows)
    /\ import_pc' = "drop_temp_end"
    /\ committed_steps' = committed_steps + 1
    /\ UNCHANGED <<temp_table, csv_file, import_scenario_id, import_error,
                   prior_results>>
    /\ UNCHANGED nonImportVars

\* DROP TABLE temp_...<scenario_id>; commit.
DropTemp ==
    /\ import_pc = "drop_temp_end"
    /\ temp_table' = NoTable
    /\ import_pc' = "done"
    /\ committed_steps' = committed_steps + 1
    /\ UNCHANGED <<results_table, csv_file, import_scenario_id, import_error,
                   prior_results>>
    /\ UNCHANGED nonImportVars

\* The process that runs the import is terminated.
TerminateImport ==
    /\ import_pc \in {"delete", "drop_temp", "create_temp", "load", "insert",
                      "drop_temp_end"}
    /\ import_pc' = "terminated"
    /\ UNCHANGED <<results_table, temp_table, csv_file, import_scenario_id,
                   import_error, committed_steps, prior_results>>
    /\ UNCHANGED nonImportVars

(***************************************************************************)
(* Export/import cycles: the results of a solved model are exported to the *)
(* results file and imported from it, twice for the same scenario.         *)
(***************************************************************************)
MaxCycles == 2

\* The results a solved model can hold: one row per element of the module's
\* operational-periods set, each (project, period) once.
CanonicalResults ==
    {r \in SeqsUpTo(CsvRows, MaxCsvRows) :
        \A i, j \in 1..Len(r) :
            (r[i][1] = r[j][1] /\ r[i][2] = r[j][2]) => i = j}

InitRoundTrip ==
    /\ export_rows \in CanonicalResults
    /\ cycle = 0
    /\ import_scenario_id = 1
    /\ \E own \in EarlierResults(1), other \in EarlierResults(2) :
           /\ Cardinality(own) <= 1
           /\ Cardinality(other) <= 1
           /\ results_table = own \cup other
    /\ prior_results = results_table
    /\ temp_table = NoTable
    /\ csv_file = [exists |-> FALSE, rows |-> <<>>, lines |-> <<>>]
    /\ import_pc = "export"
    /\ import_error = ""
    /\ committed_steps = 0
    /\ RestIdle
    /\ LoadIdle
    /\ BuildIdle
    /\ DispatchIdle

\* export_module_specific_results writes the results file; the import that
\* follows starts at its first statement.
ExportResults ==
    /\ \/ import_pc = "export"
       \/ import_pc = "done" /\ cycle < MaxCycles
    /\ csv_file' = [exists |-> TRUE, rows |-> export_rows,
                    lines |-> export_module_specific_results(export_rows)]
    /\ cycle' = cycle + 1
    /\ import_pc' = "delete"
    /\ committed_steps' = 0
    /\ prior_results' = results_table
    /\ UNCHANGED <<results_table, temp_table, import_scenario_id,
                   import_error, export_rows>>
    /\ UNCHANGED <<loadVars, buildVars, lifecycleVars, dispatchVars, restVars>>

NextImport ==
    \/ DeletePriorResults
    \/ DropTempIfExists
    \/ CreateTemp
    \/ LoadResultsIntoTemp
    \/ InsertIntoResults
    \/ DropTemp
    \/ TerminateImport

NextRoundTrip ==
    \/ ExportResults
    \/ DeletePriorResults
    \/ DropTempIfExists
    \/ CreateTemp
    \/ LoadResultsIntoTemp
    \/ InsertIntoResults
    \/ DropTemp

NextLoad ==
    \/ LoadModules
    \/ LoadModulesAgain

NextDispatch ==
    \/ AddModelComponents
    \/ ConstructCostGroups
    \/ ConstructGroupPrmType
    \/ EvaluateGroupCost

NextBuild ==
    \E b \in Builds :
        \/ DetermineDynamicComponents(b)
        \/ Register(b)
        \/ LoadData(b)
        \/ CreateInstance(b)

InitSpecLoad == InitLoad /\ BuildIdle /\ DispatchIdle /\ ImportIdle

SpecLoad == InitSpecLoad /\ [][NextLoad]_vars

SpecImport == InitImport /\ [][NextImport]_vars

(***************************************************************************)
(* Registrations on one dynamic components object: registration hooks are  *)
(* applied to it one after the other, any hook any number of times.        *)
(***************************************************************************)
MaxRegistrations == 4

InitRegister ==
    /\ phase = [b \in Builds |-> IF b = 1 THEN "registering" ELSE "absent"]
    /\ ScenarioInputs(1, <<>>, <<>>, <<>>)
    /\ BuildCommonInit
    /\ LifecycleInputsIdle
    /\ LoadIdle
    /\ DispatchIdle
    /\ ImportIdle

\* The registration hook of a capacity type is applied to d.
RegisterHandle(type) ==
    /\ phase[1] = "registering"
    /\ Len(appended[1]) < MaxRegistrations
    /\ d' = [d EXCEPT ![1] = RegistrationHook(type, d[1])]
    /\ appended' = [appended EXCEPT ![1] =
                        Append(@, OperationalPeriodSet(type))]
    /\ UNCHANGED <<phase, projects_tab, specified_file, existing_file,
                   required_capacity_modules, next_module, data_portal,
                   PRJ_OPR_PRDS, build_error>>
    /\ UNCHANGED lifecycleVars
    /\ UNCHANGED nonBuildVars

NextRegister == \E type \in CapacityTypes : RegisterHandle(type)

SpecRegister == InitRegister /\ [][NextRegister]_vars

(***************************************************************************)
(* Imports into a shared results table. Every statement is executed and    *)
(* committed in one step; the steps of two imports interleave when they    *)
(* run at the same time.                                                   *)
(***************************************************************************)
InitSink ==
    /\ sink_keyed \in BOOLEAN
    /\ \E k2 \in SinkKeys \ {[scenario_id |-> 1, subproblem |-> 1, stage |-> 1]} :
           imp_key = [i \in Importers |->
                         IF i = 1
                         THEN [scenario_id |-> 1, subproblem |-> 1, stage |-> 1]
                         ELSE k2]
    /\ imp_file \in [Importers -> SinkFiles]
    /\ imp_pc = [i \in Importers |-> "delete"]
    /\ imp_error = [i \in Importers |-> ""]
    /\ sink = {}
    /\ staging = [n \in StagingNames |-> NoStaging]
    /\ ParamIdle
    /\ ServerIdle
    /\ LoadIdle
    /\ BuildIdle
    /\ DispatchIdle
    /\ ImportTablesIdle
    /\ ExportIdle

\* One import after the other: the second starts when the first has ended.
InitSinkSequential == InitSink /\ sink_concurrent = FALSE

\* Two imports at the same time.
InitSinkConcurrent == InitSink /\ sink_concurrent = TRUE

SinkEnded(i) == imp_pc[i] \in {"done", "failed"}

\* Importer i can take its next step.
CanStep(i) == sink_concurrent \/ i = 1 \/ SinkEnded(1)

SinkFrame ==
    /\ UNCHANGED <<sink_keyed, sink_concurrent, imp_key, imp_file>>
    /\ UNCHANGED <<paramVars, serverVars>>
    /\ UNCHANGED <<loadVars, buildVars, lifecycleVars, dispatchVars,
                   importVars, exportVars>>

StagingOf(i) == StagingName(sink_keyed, i, imp_key[i])

SinkFail(i, error) ==
    /\ imp_pc' = [imp_pc EXCEPT ![i] = "failed"]
    /\ imp_error' = [imp_error EXCEPT ![i] = error]

\* The prior results are deleted: by setup_results_import for the rows of
\* the (scenario, subproblem, stage), by the linear-retirement import for
\* the rows of the scenario.
SinkDeletePrior(i) ==
    /\ CanStep(i)
    /\ imp_pc[i] = "delete"
    /\ sink' = IF sink_keyed
               THEN setup_results_import_delete(sink, imp_key[i])
               ELSE delete_prior_results(sink, imp_key[i].scenario_id)
    /\ imp_pc' = [imp_pc EXCEPT ![i] = "drop_if_exists"]
    /\ UNCHANGED <<imp_error, staging>>
    /\ SinkFrame

\* DROP TABLE IF EXISTS of the staging table.
SinkDropIfExists(i) ==
    /\ CanStep(i)
    /\ imp_pc[i] = "drop_if_exists"
    /\ staging' = [staging EXCEPT ![StagingOf(i)] = NoStaging]
    /\ imp_pc' = [imp_pc EXCEPT ![i] = "create"]
    /\ UNCHANGED <<imp_error, sink>>
    /\ SinkFrame

\* CREATE TABLE of the staging table; a table of that name that exists is
\* an OperationalError.
SinkCreate(i) ==
    /\ CanStep(i)
    /\ imp_pc[i] = "create"
    /\ IF staging[StagingOf(i)].exists
       THEN /\ SinkFail(i, "OperationalError")
            /\ UNCHANGED staging
       ELSE /\ staging' = [staging EXCEPT ![StagingOf(i)] =
                               [exists |-> TRUE, rows |-> {}, creator |-> i]]
            /\ imp_pc' = [imp_pc EXCEPT ![i] =
                              IF sink_keyed THEN "replace" ELSE "load"]
            /\ UNCHANGED imp_error
    /\ UNCHANGED sink
    /\ SinkFrame

\* The caller of setup_results_import writes its rows to the staging table,
\* copies them into the results table and drops the staging table.
SinkReplaceRows(i) ==
    /\ CanStep(i)
    /\ imp_pc[i] = "replace"
    /\ sink' = sink \cup SinkRowsOf(sink_keyed, imp_key[i], imp_file[i])
    /\ staging' = [staging EXCEPT ![StagingOf(i)] = NoStaging]
    /\ imp_pc' = [imp_pc EXCEPT ![i] = "done"]
    /\ UNCHANGED imp_error
    /\ SinkFrame

\* The rows of the file are inserted into the staging table and committed
\* after the last; a missing table is an OperationalError and a repeated
\* primary key an IntegrityError, and then nothing is committed.
SinkLoad(i) ==
    /\ CanStep(i)
    /\ imp_pc[i] = "load"
    /\ LET table == staging[StagingOf(i)]
           rows == SinkRowsOf(sink_keyed, imp_key[i], imp_file[i])
       IN  IF ~table.exists
           THEN /\ SinkFail(i, "OperationalError")
                /\ UNCHANGED staging
           ELSE IF \E old \in table.rows, new \in rows : SameSinkKey(old, new)
           THEN /\ SinkFail(i, "IntegrityError")
                /\ UNCHANGED staging
           ELSE /\ staging' = [staging EXCEPT ![StagingOf(i)].rows = @ \cup rows]
                /\ imp_pc' = [imp_pc EXCEPT ![i] = "insert"]
                /\ UNCHANGED imp_error
    /\ UNCHANGED sink
    /\ SinkFrame

\* INSERT INTO the results table SELECT ... FROM the staging table.
SinkInsert(i) ==
    /\ CanStep(i)
    /\ imp_pc[i] = "insert"
    /\ LET table == staging[StagingOf(i)]
       IN  IF ~table.exists
           THEN /\ SinkFail(i, "OperationalError")
                /\ UNCHANGED sink
           ELSE IF \E old \in sink, new \in table.rows :
                       SameSinkKey(old, new)
           THEN /\ SinkFail(i, "IntegrityError")
                /\ UNCHANGED sink
           ELSE /\ sink' = insert_select_from_temp(sink, table.rows)
                /\ imp_pc' = [imp_pc EXCEPT ![i] = "drop"]
                /\ UNCHANGED imp_error
    /\ UNCHANGED staging
    /\ SinkFrame

\* DROP TABLE of the staging table; a missing table is an OperationalError.
SinkDrop(i) ==
    /\ CanStep(i)
    /\ imp_pc[i] = "drop"
    /\ IF ~staging[StagingOf(i)].exists
       THEN /\ SinkFail(i, "OperationalError")
            /\ UNCHANGED staging
       ELSE /\ staging' = [staging EXCEPT ![StagingOf(i)] = NoStaging]
            /\ imp_pc' = [imp_pc EXCEPT ![i] = "done"]
            /\ UNCHANGED imp_error
    /\ UNCHANGED sink
    /\ SinkFrame

NextSink ==
    \E i \in Importers :
        \/ SinkDeletePrior(i)
        \/ SinkDropIfExists(i)
        \/ SinkCreate(i)
        \/ SinkReplaceRows(i)
        \/ SinkLoad(i)
        \/ SinkInsert(i)
        \/ SinkDrop(i)

SpecSinkSequential == InitSinkSequential /\ [][NextSink]_vars

SpecSinkConcurrent == InitSinkConcurrent /\ [][NextSink]_vars

(***************************************************************************)
(* The data-load hook of a capacity type called on its own.                *)
(***************************************************************************)
InitParams ==
    /\ param_type \in CapacityTypes
    /\ param_tab \in ProjectsTabs
    /\ param_file \in ParamFiles
    /\ param_loaded = [status |-> "not_called", data |-> NoParams]
    /\ SinkIdle
    /\ ServerIdle
    /\ LoadIdle
    /\ BuildIdle
    /\ DispatchIdle
    /\ ImportTablesIdle
    /\ ExportIdle

LoadParams ==
    /\ param_loaded.status = "not_called"
    /\ param_loaded' = load_module_specific_data(param_type, param_tab,
                                                 param_file)
    /\ UNCHANGED <<param_type, param_tab, param_file>>
    /\ UNCHANGED <<loadVars, buildVars, lifecycleVars, dispatchVars,
                   importVars, exportVars, sinkVars, serverVars>>

NextParams == LoadParams

(***************************************************************************)
(* The server handling the events of its clients. The server runs its      *)
(* handlers as eventlet green threads without monkey patching, and neither *)
(* handler yields between its test of SCENARIO_STATUS and its write, so a  *)
(* handler is one step.                                                    *)
(***************************************************************************)
InitServer ==
    /\ ServerIdle
    /\ SinkIdle
    /\ ParamIdle
    /\ LoadIdle
    /\ BuildIdle
    /\ DispatchIdle
    /\ ImportTablesIdle
    /\ ExportIdle

ServerFrame ==
    UNCHANGED <<loadVars, buildVars, lifecycleVars, dispatchVars,
                importVars, exportVars, sinkVars, paramVars>>

\* launch_scenario_process: a scenario reported running is answered with
\* scenario_already_running; otherwise a process named after the scenario
\* is started and its pid recorded.
launch_scenario_process(message) ==
    /\ Len(handled) < MaxLaunches
    /\ handled' = Append(handled, [event |-> "launch_scenario_process",
                                    message |-> message])
    /\ LET scenario_id == str(message.scenario)
           process_status ==
               check_scenario_process_status(SCENARIO_STATUS, message)
       IN  IF process_status
           THEN /\ emitted' = Append(emitted, "scenario_already_running")
                /\ UNCHANGED <<SCENARIO_STATUS, processes>>
           ELSE LET pid == Len(processes) + 1
                IN  /\ processes' = Append(processes,
                                           [name |-> scenario_id, pid |-> pid])
                    /\ SCENARIO_STATUS' =
                           DictPut(SCENARIO_STATUS, scenario_id,
                                   [process_id |-> pid])
                    /\ UNCHANGED emitted
    /\ UNCHANGED status_reply
    /\ ServerFrame

\* The check_scenario_process_status event of a client.
CheckScenarioProcessStatus(message) ==
    /\ Len(handled) < MaxLaunches
    /\ handled' = Append(handled,
                         [event |-> "check_scenario_process_status",
                          message |-> message])
    /\ status_reply' = check_scenario_process_status(SCENARIO_STATUS, message)
    /\ UNCHANGED <<SCENARIO_STATUS, processes, emitted>>
    /\ ServerFrame

NextServer ==
    \E message \in Messages :
        \/ launch_scenario_process(message)
        \/ CheckScenarioProcessStatus(message)

SpecServer == InitServer /\ [][NextServer]_vars

SpecParams == InitParams /\ [][NextParams]_vars

NextLifecycle ==
    \E b \in Builds :
        \/ DetermineDynamicComponents(b)
        \/ Register(b)
        \/ LoadData(b)
        \/ CreateInstance(b)
        \/ Solve(b)
        \/ ValidateOnly(b)
        \/ ExportPhase(b)
        \/ ImportPhase(b)
        \/ ValidatePhase(b)

InitSpecLifecycle == InitLifecycle /\ DispatchIdle /\ ImportIdle

SpecLifecycle == InitSpecLifecycle /\ [][NextLifecycle]_vars

SpecRoundTrip == InitRoundTrip /\ [][NextRoundTrip]_vars

InitSpecDispatch == InitDispatch /\ ImportIdle

SpecDispatch == InitSpecDispatch /\ [][NextDispatch]_vars

InitSpecBuild == InitBuild /\ DispatchIdle /\ ImportIdle

SpecBuild == InitSpecBuild /\ [][NextBuild]_vars

InitSpecConcurrent == InitConcurrent /\ DispatchIdle /\ ImportIdle

SpecConcurrent == InitSpecConcurrent /\ [][NextBuild]_vars

(***************************************************************************)
(* Properties of the loader.                                               *)
(***************************************************************************)
LoaderCalled == loaded.status # "not_called"

\* The required names import_module cannot find.
UnresolvedNames ==
    {required_modules[i] : i \in 1..Len(required_modules)} \ DOMAIN package

\* The required names that resolve to a module lacking a required attribute.
DeficientNames ==
    {m \in Range(required_modules) \cap DOMAIN package :
        \E j \in 1..Len(RequiredAttributes(category)) :
            RequiredAttributes(category)[j] \notin package[m]}

\* C1: a required type name that does not resolve makes the loader fail with
\* an error naming the type; no mapping is returned.
C1_UnknownTypeIsFatal ==
    (LoaderCalled /\ UnresolvedNames # {}) =>
        /\ loaded.status = "raised"
        /\ \E m \in UnresolvedNames : m \in Range(loaded.error)

\* C2: when a resolved required module lacks an operation of the contract the
\* loader raises an error naming the module and the missing operation, and
\* every module of a returned mapping provides every operation of the
\* contract.
C2_MissingCapabilityFails ==
    LoaderCalled =>
        /\ DeficientNames # {} =>
              /\ loaded.status = "raised"
              /\ loaded.error[3] \in DeficientNames
              /\ loaded.error[2] \in Range(RequiredAttributes(category))
              /\ loaded.error[2] \notin package[loaded.error[3]]
        /\ loaded.status = "returned" =>
              \A m \in DOMAIN loaded.modules :
                  \A j \in 1..Len(RequiredAttributes(category)) :
                      RequiredAttributes(category)[j]
                          \in loaded.modules[m].attrs

\* A capacity module without capacity_cost_rule was asked for and the loader
\* raised, naming that operation.
C2_Witness ==
    /\ category = "capacity"
    /\ loaded.status = "raised"
    /\ loaded.error[2] = "capacity_cost_rule"
    /\ "capacity_rule" \in package[loaded.error[3]]

\* C13: the mapping a call returns has one key for each distinct required
\* name that resolves, however often the name is listed, and a second call
\* with the same names and the same package ends as the first did, with a
\* mapping of the same keys.
C13_LoaderIdempotent ==
    /\ loaded.status = "returned" =>
           /\ DOMAIN loaded.modules = Range(required_modules) \cap DOMAIN package
           /\ \A m \in DOMAIN loaded.modules : loaded.modules[m].name = m
    /\ loaded_again.status # "not_called" =>
           /\ loaded_again.status = loaded.status
           /\ DOMAIN loaded_again.modules = DOMAIN loaded.modules

\* A name was listed twice and loaded under one key; the second call listed
\* it once and returned the same key.
C13_Witness ==
    /\ Len(required_modules) = 2
    /\ required_modules[1] = required_modules[2]
    /\ loaded.status = "returned"
    /\ Cardinality(DOMAIN loaded.modules) = 1
    /\ Len(required_again) = 1
    /\ loaded_again.status = "returned"
    /\ DOMAIN loaded_again.modules = DOMAIN loaded.modules

(***************************************************************************)
(* Properties of the per-type sets and of their join.                      *)
(***************************************************************************)
\* The names in the list build b joins, and the data of each.
SetList(b) == d[RegistryOf(b)].capacity_type_operational_period_sets

Contributed(b, i) == SetOf(data_portal[b], SetList(b)[i])

\* Some (project, period) pair is in two of the contributing sets of build b.
Overlap(b) ==
    \E i, j \in 1..Len(SetList(b)) :
        /\ i # j
        /\ Range(Contributed(b, i)) \cap Range(Contributed(b, j)) # {}

\* No project of build b is in more than one type bucket.
OneBucketPerEntity(b) ==
    \A i, j \in 1..Len(SetList(b)) :
        i # j =>
            {r[1] : r \in Range(Contributed(b, i))}
                \cap {r[1] : r \in Range(Contributed(b, j))} = {}

RECURSIVE SumOfSizes(_, _)
SumOfSizes(b, n) ==
    IF n = 0 THEN 0 ELSE SumOfSizes(b, n - 1) + Len(Contributed(b, n))

\* C3: a join over contributing sets that share a (project, period) pair
\* fails; no joined set is returned.
C3_OverlapIsFatal ==
    \A b \in Builds : phase[b] = "done" => ~Overlap(b)

\* C4: when no entity is in more than one bucket, the joined set has as many
\* elements as the contributing sets have together, for any number of sets.
C4_DisjointUnionSize ==
    \A b \in Builds :
        (phase[b] = "done" /\ OneBucketPerEntity(b)) =>
            Len(PRJ_OPR_PRDS[b]) = SumOfSizes(b, Len(SetList(b)))

\* Two non-empty sets of different entities were joined.
C4_Witness ==
    \E b \in Builds :
        /\ phase[b] = "done"
        /\ OneBucketPerEntity(b)
        /\ Len(SetList(b)) = 2
        /\ Len(Contributed(b, 1)) = 2
        /\ Len(Contributed(b, 2)) = 1

\* C5: the joined set holds exactly the elements of the contributing sets,
\* each once; with no set it is empty and with one set it is that set.
C5_JoinIsUnion ==
    \A b \in Builds :
        phase[b] = "done" =>
            /\ Range(PRJ_OPR_PRDS[b]) =
                   UNION {Range(Contributed(b, i)) : i \in 1..Len(SetList(b))}
            /\ IsInjective(PRJ_OPR_PRDS[b])
            /\ Len(SetList(b)) = 0 => PRJ_OPR_PRDS[b] = <<>>
            /\ Len(SetList(b)) = 1 => PRJ_OPR_PRDS[b] = Contributed(b, 1)

\* Two sets that share an element were joined.
C5_Witness ==
    \E b \in Builds :
        /\ phase[b] = "done"
        /\ Len(SetList(b)) = 2
        /\ Overlap(b)
        /\ Len(PRJ_OPR_PRDS[b]) = 2

\* Every project of build b is declared with one capacity type.
OneTypePerEntity(b) ==
    \A i, j \in 1..Len(projects_tab[b]) :
        projects_tab[b][i][1] = projects_tab[b][j][1] => i = j

\* The file a capacity type's module reads its period rows from.
PeriodFileOf(b, type) ==
    IF type = "gen_spec" THEN specified_file[b] ELSE existing_file[b]

\* The rows of a type's file that belong to projects declared with the type.
OwnRows(b, type) ==
    {row \in Range(PeriodFileOf(b, type)) :
        <<row[1], type>> \in Range(projects_tab[b])}

\* C8: with one capacity type per entity, after REGISTER and LOAD_DATA each
\* module's set holds exactly the input rows of the entities of its own type,
\* the sets are pairwise disjoint and the joined set is their union.
C8_PerTypeSetsPartition ==
    \A b \in Builds :
        (phase[b] \in {"instance", "done"} /\ OneTypePerEntity(b)) =>
            /\ \A i \in 1..Len(required_capacity_modules[b]) :
                   LET type == required_capacity_modules[b][i] IN
                   /\ SetList(b)[i] = OperationalPeriodSet(type)
                   /\ Range(Contributed(b, i)) = OwnRows(b, type)
            /\ Len(SetList(b)) = Len(required_capacity_modules[b])
            /\ ~Overlap(b)
            /\ phase[b] = "done" =>
                   Range(PRJ_OPR_PRDS[b]) =
                       UNION {OwnRows(b, t) : t \in CapacityTypes}

\* A is a gen_spec project and B a linear-economic-retirement project, both
\* with input rows, and the build created its instance.
C8_Witness ==
    \E b \in Builds :
        /\ phase[b] = "done"
        /\ projects_tab[b] =
               << <<"A", "gen_spec">>,
                  <<"B", "existing_gen_linear_economic_retirement">> >>
        /\ Range(PRJ_OPR_PRDS[b]) = {<<"A", 1>>, <<"B", 1>>, <<"B", 2>>}

Dispatched == dispatched.outcome # "none"

\* C6: dispatching for a group whose type has no imported module fails with
\* an error naming the type; no value is returned.
C6_MissingModuleRaises ==
    (Dispatched
       /\ group_prm_type[dispatched.group]
              \notin DOMAIN imported_prm_modules.modules) =>
        /\ dispatched.outcome = "KeyError"
        /\ dispatched.key = group_prm_type[dispatched.group]
        /\ dispatch_pc = "failed"

\* The rule was evaluated for a group whose type was not imported.
C6_Witness ==
    /\ dispatched.outcome = "KeyError"
    /\ dispatched.key = "energy_only_allowed"
    /\ "fully_deliverable" \in DOMAIN imported_prm_modules.modules

\* C7: a value returned by the dispatch is the result of group_cost_rule of
\* the module imported for the group's own type, called with the group and
\* the period; a module of another type is never used.
C7_DispatchByDeclaredType ==
    Dispatched =>
        LET type == group_prm_type[dispatched.group]
            imported == imported_prm_modules.modules
        IN  /\ dispatched.outcome = "value" =>
                  /\ type \in DOMAIN imported
                  /\ dispatched.module = type
                  /\ dispatched.operation = "group_cost_rule"
                  /\ dispatched.group \in Range(PRM_COST_GROUPS)
                  /\ dispatched.period \in Periods
            /\ (type \in DOMAIN imported
                  /\ "group_cost_rule" \in imported[type].attrs) =>
                  dispatched.outcome = "value"

\* A value was returned while modules of two types were imported.
C7_Witness ==
    /\ dispatched.outcome = "value"
    /\ dispatched.module = "energy_only_allowed"
    /\ "fully_deliverable" \in DOMAIN imported_prm_modules.modules
    /\ dispatched.period = 2

(***************************************************************************)
(* Properties of the results import.                                       *)
(***************************************************************************)
\* The rows of a table that belong to the imported scenario.
KeyRows(table) == {row \in table : row.scenario_id = import_scenario_id}

NewRows == ImportedRows(import_scenario_id, csv_file.rows)

ImportStopped == import_pc \in {"failed", "terminated"}

C12_NoPartialResults ==
    /\ \/ KeyRows(results_table) = KeyRows(prior_results)
       \/ KeyRows(results_table) = {}
       \/ KeyRows(results_table) = NewRows
    /\ import_pc = "insert" =>
           (temp_table.rows = NewRows /\ KeyRows(results_table) = {})
    /\ (KeyRows(results_table) # {} /\ committed_steps >= 1) =>
           import_pc \in {"drop_temp_end", "done", "terminated"}

\* The import was terminated when both new rows were staged and none copied.
C12_Witness ==
    /\ import_pc = "terminated"
    /\ committed_steps = 4
    /\ Cardinality(NewRows) = 2
    /\ temp_table.rows = NewRows
    /\ KeyRows(results_table) = {}
    /\ KeyRows(prior_results) = {}

(***************************************************************************)
(* Properties of the export/import cycle.                                  *)
(***************************************************************************)
\* The rows the exported results stand for.
ExportedRows == ImportedRows(import_scenario_id, export_rows)

CycleEnded == cycle >= 1 /\ import_pc \in {"done", "failed"}

\* C11: when an export/import cycle has ended, the first or the second for
\* the same scenario, the results table holds for the scenario exactly the
\* exported rows with their values, one row per exported (project, period).
C11_RoundTrip ==
    CycleEnded =>
        /\ KeyRows(results_table) = ExportedRows
        /\ Cardinality(KeyRows(results_table)) = Len(export_rows)

(***************************************************************************)
(* Properties of the lifecycle of a build.                                 *)
(***************************************************************************)
PhaseRank(name) ==
    CASE name = "register" -> 1
      [] name = "load_data" -> 2
      [] name = "export_results" -> 3
      [] name = "import_results" -> 4
      [] name = "validate" -> 5

\* The phases of the hooks that ran in build b.
PhasesRun(b) == {hook_log[b][i][1] : i \in 1..Len(hook_log[b])}

\* C14: in every build the hooks run in the order of the phases register,
\* load_data, export_results, import_results, validate, and a load_data
\* hook runs only after the register hook of every required module.
C14_PhaseOrder ==
    \A b \in Builds :
        LET log == hook_log[b]
            required == required_capacity_modules[b]
        IN  /\ \A i, j \in 1..Len(log) :
                   i < j => PhaseRank(log[i][1]) <= PhaseRank(log[j][1])
            /\ \A j \in 1..Len(log) :
                   log[j][1] = "load_data" =>
                       \A k \in 1..Len(required) :
                           \E i \in 1..(j - 1) :
                               log[i] = <<"register", required[k]>>

\* A build of two modules ran hooks of all five phases.
C14_Witness ==
    /\ phase[1] = "finished"
    /\ Len(required_capacity_modules[1]) = 2
    /\ PhasesRun(1) = {"register", "load_data", "export_results",
                       "import_results", "validate"}

\* The gen_spec projects of build b that have no row in its period-params
\* file.
MissingInputs(b) ==
    {projects_tab[b][i][1] : i \in 1..Len(projects_tab[b])}
    \cap {prj \in Range(determine_gen_spec_projects(projects_tab[b])) :
             \A i \in 1..Len(specified_file[b]) : specified_file[b][i][1] # prj}

WasBuilt(b) == PRJ_OPR_PRDS[b] # <<>> \/ "load_data" \in PhasesRun(b)

\* The failures the result hooks of build b meet: without a results
\* directory the export of the linear-retirement module cannot write its
\* file and its import finds no file.
ExpectedFailures(b) ==
    LET lin == "existing_gen_linear_economic_retirement"
    IN  IF WasBuilt(b) /\ lin \in Range(required_capacity_modules[b])
           /\ ~results_dir[b]
        THEN << <<"export_results", lin, "IOError">>,
                <<"import_results", lin, "IOError">> >>
        ELSE <<>>

\* The error messages the four checks of validate_inputs found for b.
CheckMessages(b) ==
    Range(check_errors[b].dtype) \cup Range(check_errors[b].sign)
    \cup Range(check_errors[b].fuel) \cup Range(check_errors[b].curves)

\* The findings in the validation table of b that module reported.
FindingsOf(b, module) ==
    {validation_sink[b][i].finding :
        i \in {j \in 1..Len(validation_sink[b]) :
                  validation_sink[b][j].module = module}}

C16_ValidationWitness ==
    /\ phase[1] = "finished"
    /\ FindingsOf(1, "gen_spec") # {}
    /\ FindingsOf(1, OperationsModule) # {}

\* The registration hooks that ran in build b, in the order they ran.
RegisterEntries(b) == SelectSeq(hook_log[b], LAMBDA en : en[1] = "register")

\* C17: the registration hooks that have run in a build are those of the
\* first required modules, one call each in the order of the required
\* list, the list of sets to join holds one name per call in the same
\* order, and when the register phase has ended the hook of every required
\* module has run.
C17_RegisterOnceInOrder ==
    \A b \in Builds :
        LET required == required_capacity_modules[b]
            n == Len(RegisterEntries(b))
        IN  /\ n <= Len(required)
            /\ RegisterEntries(b) = [k \in 1..n |-> <<"register", required[k]>>]
            /\ d[RegistryOf(b)].capacity_type_operational_period_sets
                   = [k \in 1..n |-> OperationalPeriodSet(required[k])]
            /\ phase[b] = "register" => n = next_module[b] - 1
            /\ phase[b] \in {"load_data", "instance", "done", "failed",
                              "export_results", "import_results"}
                   => n = Len(required)
            /\ phase[b] \in {"validate", "finished"}
                   => n = (IF WasBuilt(b) THEN Len(required) ELSE 0)

\* The register phase of a build of two modules has ended; the second of
\* them is the no-retirement module.
C17_Witness ==
    /\ phase[1] = "load_data"
    /\ Len(required_capacity_modules[1]) = 2
    /\ required_capacity_modules[1][2] = "existing_gen_no_economic_retirement"
    /\ Len(RegisterEntries(1)) = 2

\* PRJ_OPR_PRDS of build b has been initialised by join_sets.
Joined(b) ==
    \/ phase[b] \in {"done", "export_results", "import_results"}
    \/ phase[b] \in {"validate", "finished"} /\ WasBuilt(b)

\* When PRJ_OPR_PRDS is joined the set of every required module is in the
\* list, and the joined set holds the elements of all of them.
JoinedAfterRegistration ==
    \A b \in Builds :
        Joined(b) =>
            /\ \A k \in 1..Len(required_capacity_modules[b]) :
                   OperationalPeriodSet(required_capacity_modules[b][k])
                       \in Range(SetList(b))
            /\ Range(PRJ_OPR_PRDS[b]) =
                   UNION {Range(SetOf(data_portal[b], SetList(b)[i])) :
                             i \in 1..Len(SetList(b))}

\* Outside the register phase no step changes the list of sets to join.
RegistryReadOnly ==
    \A b \in Builds :
        phase[b] # "register" => SetList(b)' = SetList(b)

\* C18: in every build the join of PRJ_OPR_PRDS happens when the set of
\* every required module has been registered, and no step outside the
\* register phase, the export hook that is handed d included, changes the
\* list of sets to join.
C18_RegistrationsPrecedeJoins ==
    []JoinedAfterRegistration /\ [][RegistryReadOnly]_vars

\* A build of two modules was joined and its export hook, which receives d,
\* has run.
C18_Witness ==
    /\ phase[1] = "finished"
    /\ Len(SetList(1)) = 2
    /\ PRJ_OPR_PRDS[1] # <<>>
    /\ \E i \in 1..Len(hook_log[1]) : hook_log[1][i][1] = "export_results"

(***************************************************************************)
(* Properties of the registry.                                             *)
(***************************************************************************)
\* How often handle h is in the list of sets to join of build b.
Occurrences(b, h) ==
    Cardinality({i \in 1..Len(SetList(b)) : SetList(b)[i] = h})

\* C19: after any sequence of registrations the list of sets to join holds
\* the handles that were registered, none missing, and each of them exactly
\* once, so that registering a handle again changes nothing.
C19_RegisterIdempotent ==
    /\ Range(SetList(1)) = Range(appended[1])
    /\ \A h \in Range(appended[1]) : Occurrences(1, h) = 1

\* What the hooks do: every registration appends, so the list is the
\* sequence of the registrations made, repetitions included.
C19_RegisterAppends == SetList(1) = appended[1]

(***************************************************************************)
(* Properties of the order of the joined set.                              *)
(***************************************************************************)
\* The elements of the first n contributing sets of build b, set after set
\* in the order of the list and each set in its own order.
RECURSIVE InsertionSequence(_, _)
InsertionSequence(b, n) ==
    IF n = 0 THEN <<>>
    ELSE InsertionSequence(b, n - 1) \o Contributed(b, n)

\* The order of first appearance of the elements of the contributing sets.
FirstAppearanceOrder(b) == Unique(InsertionSequence(b, Len(SetList(b))))

\* C20: the joined set iterates in the order of first appearance of its
\* elements in the contributing sets, taken in the order of the list, for
\* one contributing set and for several.
C20_JoinKeepsInsertionOrder ==
    \A b \in Builds :
        phase[b] = "done" => PRJ_OPR_PRDS[b] = FirstAppearanceOrder(b)

\* What the code gives: the order holds for a list of at most one set, and
\* for more sets the joined set has the same elements in some order.
C20_OrderOfOneSetOnly ==
    \A b \in Builds :
        phase[b] = "done" =>
            /\ Len(SetList(b)) <= 1 => PRJ_OPR_PRDS[b] = FirstAppearanceOrder(b)
            /\ Range(PRJ_OPR_PRDS[b]) = Range(FirstAppearanceOrder(b))

(***************************************************************************)
(* Properties of the imports into a shared results table.                  *)
(***************************************************************************)
\* The rows a complete import of importer i stores under its key.
StoredRows(i) == SinkRowsOf(sink_keyed, imp_key[i], imp_file[i])

\* C21: the rows the first import stored under its key stay in the results
\* table, unchanged, while and after a second import replaces the results
\* of another (scenario, subproblem, stage).
C21_OtherKeysUntouched ==
    (imp_pc[1] = "done" /\ imp_key[1] # imp_key[2]) => StoredRows(1) \subseteq sink

\* What the code gives: the rows of the other key stay when the table is
\* the one setup_results_import prepares, or when the two keys differ in
\* their scenario.
C21_OtherScenariosUntouched ==
    (/\ imp_pc[1] = "done"
     /\ sink_keyed \/ imp_key[1].scenario_id # imp_key[2].scenario_id)
    => StoredRows(1) \subseteq sink

(***************************************************************************)
(* Properties of the data-load hooks.                                      *)
(***************************************************************************)
\* The period-params file the load hook of a capacity type reads.
InputFileOf(b, type) ==
    IF type = "gen_spec" THEN specified_file[b] ELSE existing_file[b]

\* The projects of build b declared with the type that have no row in the
\* file the type's load hook reads.
ProjectsWithoutInputs(b, type) ==
    {projects_tab[b][i][1] :
        i \in {j \in 1..Len(projects_tab[b]) :
                  /\ projects_tab[b][j][2] = type
                  /\ \A k \in 1..Len(InputFileOf(b, type)) :
                         InputFileOf(b, type)[k][1] # projects_tab[b][j][1]}}

\* C22: once the load hook of a capacity type has run in a build some of
\* whose projects of that type have no row of inputs, the build has failed
\* with an error that names those projects.
C22_MissingInputsAreFatal ==
    \A b \in Builds :
        \A j \in 1..Len(hook_log[b]) :
            LET type == hook_log[b][j][2]
            IN  (hook_log[b][j][1] = "load_data"
                 /\ ProjectsWithoutInputs(b, type) # {})
                => /\ phase[b] = "failed"
                   /\ build_error[b] = <<"Missing capacity/fixed cost inputs",
                                         ProjectsWithoutInputs(b, type)>>

\* What the code gives: the property for the hook of gen_spec alone.
C22_MissingGenSpecInputsAreFatal ==
    \A b \in Builds :
        (/\ \E j \in 1..Len(hook_log[b]) :
                hook_log[b][j] = <<"load_data", "gen_spec">>
         /\ ProjectsWithoutInputs(b, "gen_spec") # {})
        => /\ phase[b] = "failed"
           /\ build_error[b] = <<"Missing capacity/fixed cost inputs",
                                 ProjectsWithoutInputs(b, "gen_spec")>>

(***************************************************************************)
(* Properties of the required PRM modules.                                 *)
(***************************************************************************)
\* The PRM types the projects declare.
DeclaredPrmTypes == Range(prm_type_column) \ {"."}

\* The names the loader was handed and went through: each is either a key
\* of the returned dict or named in a "not found" message.
NamesNotFound ==
    {imported_prm_modules.printed[i][2] :
        i \in 1..Len(imported_prm_modules.printed)}

ResultPhases == {"export_results", "import_results", "validate"}

\* The required modules of build b that have entities in the joined set.
ModulesWithEntities(b) ==
    {type \in Range(required_capacity_modules[b]) :
        \E prj \in Range(PRJ_OPR_PRDS[b]) :
            \E i \in 1..Len(projects_tab[b]) :
                projects_tab[b][i] = <<prj[1], type>>}

\* In a finished build that was solved no hook is logged for a module that
\* does not define it, every hook that is defined was invoked, and the
\* modules flagged are those with entities and without an export hook.
HooklessModulesPassedOver ==
    \A b \in Builds :
        (phase[b] = "finished" /\ WasBuilt(b)) =>
            /\ \A type \in Range(required_capacity_modules[b]) :
                   \A p \in ResultPhases :
                       (p \in ModuleHooks(type))
                       <=> (\E i \in 1..Len(hook_log[b]) :
                               hook_log[b][i] = <<p, type>>)
            /\ config_defects[b] =
                   {type \in ModulesWithEntities(b) :
                       type \in {"gen_spec",
                                 "existing_gen_no_economic_retirement"}}

\* The step of a phase at a module without the phase's hook changes nothing
\* but the position in the list of modules and, in the export phase, the
\* set of flagged modules.
HooklessStepIsNoOp ==
    \A b \in Builds :
        (/\ phase[b] \in ResultPhases
         /\ next_module[b] <= Len(required_capacity_modules[b])
         /\ phase[b] \notin
                ModuleHooks(required_capacity_modules[b][next_module[b]]))
        => /\ phase'[b] = phase[b]
           /\ hook_log'[b] = hook_log[b]
           /\ collected'[b] = collected[b]
           /\ validation_sink'[b] = validation_sink[b]
           /\ results_file'[b] = results_file[b]
           /\ d' = d
           /\ PRJ_OPR_PRDS' = PRJ_OPR_PRDS

\* C24: a required module without the hook of a phase is passed over in
\* that phase without effect, the phase goes on to the other modules and
\* ends, and a module that has entities in the joined set and no export
\* hook is flagged while the build goes on to its end.
C24_MissingHookIsNoOp ==
    []HooklessModulesPassedOver /\ [][HooklessStepIsNoOp]_vars

\* A solved build of the no-retirement module, which has entities and no
\* export hook, and of the linear-retirement module, whose hooks ran, has
\* finished with the first of them flagged.
C24_Witness ==
    /\ phase[1] = "finished"
    /\ required_capacity_modules[1] =
           <<"existing_gen_no_economic_retirement",
             "existing_gen_linear_economic_retirement">>
    /\ config_defects[1] = {"existing_gen_no_economic_retirement"}
    /\ \E i \in 1..Len(hook_log[1]) :
           hook_log[1][i] = <<"export_results",
                              "existing_gen_linear_economic_retirement">>

(***************************************************************************)
(* Properties of the loaded parameters.                                    *)
(***************************************************************************)
\* The rows of the period-params file whose project is declared with the
\* type whose hook was called.
RowsOfType ==
    {k \in 1..Len(param_file) :
        \E i \in 1..Len(param_tab) :
            param_tab[i] = <<param_file[k][1], param_type>>}

\* C25: when the load hook has loaded its data, both parameters are defined
\* for exactly the (project, period) pairs of the operational-period set,
\* and the set lists the file's rows of the type's projects, one entry per
\* row, in the order of the file.
C25_ParamsDefinedOnSet ==
    param_loaded.status = "loaded" =>
        LET list == param_loaded.data.generator_period_list
        IN  /\ DOMAIN param_loaded.data.capacity_mw_dict = Range(list)
            /\ DOMAIN param_loaded.data.fixed_cost_per_mw_yr_dict = Range(list)
            /\ Len(list) = Cardinality(RowsOfType)
            /\ \A k \in RowsOfType :
                   LET position == Cardinality({j \in RowsOfType : j <= k})
                   IN  list[position] = <<param_file[k][1], param_file[k][2]>>

\* The hook loaded two rows of one project and passed over none.
C25_Witness ==
    /\ param_loaded.status = "loaded"
    /\ Len(param_loaded.data.generator_period_list) = 2
    /\ param_file[1][2] # param_file[2][2]
    /\ Cardinality(DOMAIN param_loaded.data.capacity_mw_dict) = 2

(***************************************************************************)
(* Properties of the group-type lookup and of the dispatch on it.          *)
(***************************************************************************)
\* The group sets of the registry that contain the group.
SetsContaining(group) ==
    {group_set \in Range(prm_d.prm_cost_group_sets) :
        group \in Range(SetOf(group_sets, group_set))}

\* C26: for every group of the joined set PRM_COST_GROUPS, group_prm_type_init
\* returns a value, and the value is the type registered for a group set
\* that contains the group.
C26_LookupReturnsTypeOfHolder ==
    \A group \in Range(PRM_COST_GROUPS) :
        LET prm_type == group_prm_type_init(group_sets, prm_d, group)
        IN  /\ prm_type # "None"
            /\ \E group_set \in SetsContaining(group) :
                   prm_d.prm_cost_group_prm_type[group_set] = prm_type

\* The joined set was built from two group sets registered with different
\* types, and one of its groups is in the second set only.
C26_Witness ==
    /\ dispatch_pc \notin {"add_model_components", "PRM_COST_GROUPS"}
    /\ Len(prm_d.prm_cost_group_sets) = 2
    /\ prm_d.prm_cost_group_prm_type[prm_d.prm_cost_group_sets[1]]
           # prm_d.prm_cost_group_prm_type[prm_d.prm_cost_group_sets[2]]
    /\ \E group \in Range(PRM_COST_GROUPS) :
           SetsContaining(group) = {prm_d.prm_cost_group_sets[2]}

\* The registry holds what the PRM type modules of the scenario registered:
\* every group set is registered with a type that a project declares and
\* whose module exists.
RegisteredByDeclaredTypes ==
    \A group_set \in Range(prm_d.prm_cost_group_sets) :
        prm_d.prm_cost_group_prm_type[group_set]
            \in DeclaredPrmTypes \cap DOMAIN prm_package

C28_DispatchedOperationWasChecked ==
    (Dispatched
       /\ imported_prm_modules.status = "returned"
       /\ group_prm_type[dispatched.group]
              \in DOMAIN imported_prm_modules.modules) =>
        /\ dispatched.operation \in Range(PrmRequiredAttributes)
        /\ dispatched.outcome # "AttributeError"

\* What the loader does guarantee: every module it returned has every
\* attribute of the list it was given.
C28_RequiredAttributesPresent ==
    \A prm_type \in DOMAIN imported_prm_modules.modules :
        Range(PrmRequiredAttributes)
            \subseteq imported_prm_modules.modules[prm_type].attrs

(***************************************************************************)
(* Properties of two imports running at the same time.                     *)
(***************************************************************************)
\* The two imports are for one scenario and different (subproblem, stage).
SameScenarioOtherKey ==
    /\ imp_key[1].scenario_id = imp_key[2].scenario_id
    /\ imp_key[1] # imp_key[2]

\* No import has failed, and when both have ended the results table holds
\* exactly the rows of the two files, each under its own key.
EachImportStoresItsRows ==
    /\ \A i \in Importers : imp_pc[i] # "failed"
    /\ (\A i \in Importers : imp_pc[i] = "done") =>
           sink = StoredRows(1) \cup StoredRows(2)

\* A step of importer i leaves every staging table another importer created
\* as it is, and does not copy rows out of one.
OwnStagingOnly ==
    \A i \in Importers :
        imp_pc'[i] # imp_pc[i] =>
            /\ \A name \in StagingNames :
                   (staging[name].exists /\ staging[name].creator # i) =>
                       staging'[name] = staging[name]
            /\ (imp_pc[i] = "insert" /\ staging[StagingOf(i)].exists) =>
                   staging[StagingOf(i)].creator = i

\* C29: two imports that run concurrently for the same results table and
\* scenario_id but different (subproblem, stage) do not interfere: neither
\* drops, recreates or reads the other's staging table, and each ends with
\* its own complete rows committed under its own key.
C29_ConcurrentImportsIndependent ==
    /\ [](SameScenarioOtherKey => EachImportStoresItsRows)
    /\ [][SameScenarioOtherKey => OwnStagingOnly]_vars

\* What the code gives: the imports are independent when the import is the
\* one setup_results_import prepares, whose staging table is TEMPORARY and
\* whose DELETE names the (subproblem, stage).
C29_KeyedImportsIndependent ==
    /\ []((SameScenarioOtherKey /\ sink_keyed) => EachImportStoresItsRows)
    /\ [][(SameScenarioOtherKey /\ sink_keyed) => OwnStagingOnly]_vars

(***************************************************************************)
(* Properties of the server.                                               *)
(***************************************************************************)
\* The processes started for a scenario id.
ProcessesOf(scenario_id) ==
    {k \in 1..Len(processes) : processes[k].name = scenario_id}

AtMostOneProcessPerScenario ==
    \A message \in Messages :
        Cardinality(ProcessesOf(str(message.scenario))) <= 1

\* A launch request for a recorded scenario id starts nothing and emits
\* scenario_already_running; one for an unrecorded id starts one process
\* of that id and records its pid, and emits nothing.
LaunchStep ==
    (Len(handled') = Len(handled) + 1
       /\ handled'[Len(handled')].event = "launch_scenario_process") =>
        LET scenario_id == str(handled'[Len(handled')].message.scenario)
        IN  IF scenario_id \in DOMAIN SCENARIO_STATUS
            THEN /\ processes' = processes
                 /\ SCENARIO_STATUS' = SCENARIO_STATUS
                 /\ emitted' = Append(emitted, "scenario_already_running")
            ELSE /\ Len(processes') = Len(processes) + 1
                 /\ SubSeq(processes', 1, Len(processes)) = processes
                 /\ processes'[Len(processes')].name = scenario_id
                 /\ scenario_id \in DOMAIN SCENARIO_STATUS'
                 /\ SCENARIO_STATUS'[scenario_id].process_id
                        = processes'[Len(processes')].pid
                 /\ emitted' = emitted

=============================================================================
